---------------------------- MODULE Spec2Model ----------------------------
(***************************************************************************)
(* Model of the loop-data buffers of the weewx realtime_clientraw service  *)
(* (bin/user/rtcr.py): class ScalarBuffer and class VectorBuffer, the      *)
(* per-observation series that keep the last value, the day's extremes,    *)
(* the running sums and a time-windowed history,                           *)
(* class RtcrBuffer, the dict of these series with the day's wind run,     *)
(* and class CachedPacket, the cache of the last value of every field.     *)
(* Specification Spec runs one series, RtcrSpec the buffer, CacheSpec the  *)
(* packet cache, TrendSpec the function calc_trend and ThreadSpec the       *)
(* service with its worker thread (ThreadLiveSpec with the worker         *)
(* scheduled fairly); DaySpec runs the worker over packets of several      *)
(* days.                                                                   *)
(*                                                                         *)
(* Conventions                                                             *)
(*   - Python's None is the empty tuple <<>>; a value x that may be None   *)
(*     is carried as <<x>> (Some(x)), so None never meets arithmetic.      *)
(*   - An attribute an object does not have (day_sum of a buffer built     *)
(*     with sum=False) is None; reading it raises AttributeError.          *)
(*   - A call's outcome is a record [self, ret, exc]: the object after the *)
(*     call, the value returned and the exception raised ("none" if the    *)
(*     call returned).  A call that raises keeps the assignments made      *)
(*     before the raising statement.                                       *)
(*   - Observation values are floats in the program and small integers     *)
(*     here; an average is the exact fraction sum/len in lowest terms.     *)
(***************************************************************************)
EXTENDS Integers, Sequences, FiniteSets, TLC

(***************************************************************************)
(* Program constant and the bounds of the model.                           *)
(***************************************************************************)
MAX_AGE == 600

\* the values of a scalar observation are 1..MaxVal
MaxVal == 3
\* the wind speeds given to a vector buffer are 1..MaxSpeed
MaxSpeed == 2
\* timestamps are 0, TsStep, ..., MaxTick * TsStep, on a grid of half the
\* history window, so that an entry can lie exactly on the window's edge
TsStep == MAX_AGE \div 2
MaxTick == 2
\* query ages are 0, TsStep, ..., MaxAgeTick * TsStep
MaxAgeTick == 1
\* an add_value is taken only if it leaves a history of at most this length
MaxHist == 2
\* an add_value that adds to the sums is taken only while no sum exceeds this
MaxSum == 3

None == <<>>
Some(x) == <<x>>
The(o) == o[1]

Values == 1..MaxVal
Speeds == 1..MaxSpeed
Timestamps == {k * TsStep : k \in 0..MaxTick}
Ages == {k * TsStep : k \in 0..MaxAgeTick}
\* the wind directions given with a speed: None (no direction) or a bearing
Dirs == {None, Some(90)}

(***************************************************************************)
(* class ObsTuple: the tuple (value, ts); item 0 is value, item 1 is ts.   *)
(***************************************************************************)
ObsTuple(value, ts) == [value |-> value, ts |-> ts]

(***************************************************************************)
(* Helpers for Python built-ins.                                           *)
(***************************************************************************)
RECURSIVE SumSeq(_)
SumSeq(s) == IF s = <<>> THEN 0 ELSE Head(s) + SumSeq(Tail(s))

RECURSIVE Gcd(_, _)
Gcd(a, b) == IF b = 0 THEN a ELSE Gcd(b, a % b)

\* the quotient num/den (den > 0) as a fraction in lowest terms
Quotient(num, den) ==
    LET g == Gcd(IF num < 0 THEN -num ELSE num, den)
    IN  [num |-> num \div g, den |-> den \div g]

\* min(list) of a non-empty sequence of integers
MinOf(s) == CHOOSE m \in {s[i] : i \in DOMAIN s} : \A i \in DOMAIN s : m <= s[i]

\* math.cos(math.radians(90.0 - w_dir)) and math.sin(...) at the bearings
\* 0, 90, 180, 270, where they are 0, 1 or -1 (floating-point residue dropped)
CosTerm(w_dir) == CASE w_dir = 0 -> 0 [] w_dir = 90 -> 1
                    [] w_dir = 180 -> 0 [] w_dir = 270 -> -1
SinTerm(w_dir) == CASE w_dir = 0 -> 1 [] w_dir = 90 -> 0
                    [] w_dir = 180 -> -1 [] w_dir = 270 -> 0

Outcome(self, ret, exc) == [self |-> self, ret |-> ret, exc |-> exc]


(***************************************************************************)
(* class ScalarBuffer                                                      *)
(***************************************************************************)
\* ScalarBuffer.__init__(stats, history, sum).  stats is None or Some of a
\* record [min, mintime, max, maxtime, sum, xsum, ysum].
ScalarBuffer(stats, history, sum) ==
    [ kind         |-> "scalar",
      last         |-> None,
      lasttime     |-> None,
      day_min      |-> IF stats # None THEN The(stats).min ELSE None,
      day_mintime  |-> IF stats # None THEN The(stats).mintime ELSE None,
      day_max      |-> IF stats # None THEN The(stats).max ELSE None,
      day_maxtime  |-> IF stats # None THEN The(stats).maxtime ELSE None,
      has_history  |-> history,
      history      |-> <<>>,
      history_full |-> FALSE,
      day_sum      |-> IF sum THEN (IF stats # None THEN Some(The(stats).sum) ELSE Some(0))
                              ELSE None,
      day_xsum     |-> None,
      day_ysum     |-> None,
      nineam_sum   |-> IF sum THEN Some(0) ELSE None,
      interval_sum |-> IF sum THEN Some(0) ELSE None ]

\* ScalarBuffer.trim_history(ts); called with a non-empty history
Scalar_trim_history(self, ts) ==
    LET oldest_ts == ts - MAX_AGE
        tss == [i \in DOMAIN self.history |-> self.history[i].ts]
    IN  [self EXCEPT !.history_full = (MinOf(tss) <= oldest_ts),
                     !.history = SelectSeq(self.history, LAMBDA s : s.ts > oldest_ts)]

\* mutant of Scalar_update_last: the test on the timestamp is dropped
Scalar_update_last_Always(self, val, ts) ==
    [self EXCEPT !.last = Some(val), !.lasttime = Some(ts)]

\* _add_value, lines 1921-1923: the last value follows the newest timestamp
Scalar_update_last(self, val, ts) ==
    IF self.lasttime = None \/ ts >= The(self.lasttime)
    THEN [self EXCEPT !.last = Some(val), !.lasttime = Some(ts)]
    ELSE self

\* mutant of Scalar_update_min: the comparison is turned round
Scalar_update_min_Greater(self, val, ts) ==
    IF self.day_min = None \/ val > The(self.day_min)
    THEN [self EXCEPT !.day_min = Some(val), !.day_mintime = Some(ts)]
    ELSE self

\* _add_value, lines 1925-1927
Scalar_update_min(self, val, ts) ==
    IF self.day_min = None \/ val < The(self.day_min)
    THEN [self EXCEPT !.day_min = Some(val), !.day_mintime = Some(ts)]
    ELSE self

\* mutant of Scalar_update_max: the comparison is not strict
Scalar_update_max_NotStrict(self, val, ts) ==
    IF self.day_max = None \/ val >= The(self.day_max)
    THEN [self EXCEPT !.day_max = Some(val), !.day_maxtime = Some(ts)]
    ELSE self

\* _add_value, lines 1928-1930
Scalar_update_max(self, val, ts) ==
    IF self.day_max = None \/ val > The(self.day_max)
    THEN [self EXCEPT !.day_max = Some(val), !.day_maxtime = Some(ts)]
    ELSE self

\* _add_value, lines 1931-1933: self.history.append(...); self.trim_history(ts)
Scalar_add_history(self, val, ts) ==
    IF ~self.has_history
    THEN Outcome(self, None, "AttributeError")
    ELSE Outcome(Scalar_trim_history(
                     [self EXCEPT !.history = Append(self.history, ObsTuple(val, ts))], ts),
                 None, "none")

\* mutant of Scalar_add_sum: nineam_sum is left out
Scalar_add_sum_SkipsNineam(self, val) ==
    IF self.day_sum = None \/ self.interval_sum = None
    THEN Outcome(self, None, "AttributeError")
    ELSE Outcome([self EXCEPT !.day_sum = Some(The(self.day_sum) + val),
                              !.interval_sum = Some(The(self.interval_sum) + val)],
                 None, "none")

\* _add_value, lines 1934-1937: three += in turn, each raising AttributeError
\* if the attribute is missing
Scalar_add_sum(self, val) ==
    IF self.day_sum = None THEN Outcome(self, None, "AttributeError")
    ELSE LET s1 == [self EXCEPT !.day_sum = Some(The(self.day_sum) + val)]
         IN  IF s1.nineam_sum = None THEN Outcome(s1, None, "AttributeError")
             ELSE LET s2 == [s1 EXCEPT !.nineam_sum = Some(The(s1.nineam_sum) + val)]
                  IN  IF s2.interval_sum = None THEN Outcome(s2, None, "AttributeError")
                      ELSE Outcome([s2 EXCEPT !.interval_sum = Some(The(s2.interval_sum) + val)],
                                   None, "none")

\* mutant of Scalar_add_value: last and lasttime are assigned before the test
\* for None
Scalar_add_value_LastBeforeNoneTest(self, val, ts, hilo, history, sum) ==
    LET s1 == IF self.lasttime = None \/ ts >= The(self.lasttime)
              THEN [self EXCEPT !.last = val, !.lasttime = Some(ts)]
              ELSE self
    IN  IF val = None THEN Outcome(s1, None, "none")
        ELSE LET v  == The(val)
                 s2 == IF hilo THEN Scalar_update_max(Scalar_update_min(s1, v, ts), v, ts)
                               ELSE s1
                 h  == IF history THEN Scalar_add_history(s2, v, ts)
                                  ELSE Outcome(s2, None, "none")
             IN  IF h.exc # "none" THEN h
                 ELSE IF sum THEN Scalar_add_sum(h.self, v) ELSE h

\* ScalarBuffer._add_value(val, ts, hilo, history, sum); val is None or Some(v)
Scalar_add_value(self, val, ts, hilo, history, sum) ==
    IF val = None THEN Outcome(self, None, "none")
    ELSE LET v  == The(val)
             s1 == Scalar_update_last(self, v, ts)
             s2 == IF hilo THEN Scalar_update_max(Scalar_update_min(s1, v, ts), v, ts) ELSE s1
             h  == IF history THEN Scalar_add_history(s2, v, ts) ELSE Outcome(s2, None, "none")
         IN  IF h.exc # "none" THEN h
             ELSE IF sum THEN Scalar_add_sum(h.self, v) ELSE h

\* mutant of Scalar_day_reset: the interval sum is reset with the day sum
Scalar_day_reset_AlsoInterval(self) ==
    [self EXCEPT !.day_min = None, !.day_mintime = None,
                 !.day_max = None, !.day_maxtime = None,
                 !.day_sum = Some(0), !.interval_sum = Some(0)]

\* ScalarBuffer.day_reset(): the assignment to day_sum creates the attribute,
\* it never raises
Scalar_day_reset(self) ==
    [self EXCEPT !.day_min = None, !.day_mintime = None,
                 !.day_max = None, !.day_maxtime = None,
                 !.day_sum = Some(0)]

\* mutant of Scalar_nineam_reset: the day sum is reset with the 9am sum
Scalar_nineam_reset_AlsoDay(self) == [self EXCEPT !.nineam_sum = Some(0), !.day_sum = Some(0)]

\* ScalarBuffer.nineam_reset()
Scalar_nineam_reset(self) == [self EXCEPT !.nineam_sum = Some(0)]

\* ScalarBuffer.interval_reset()
Scalar_interval_reset(self) == [self EXCEPT !.interval_sum = Some(0)]

\* max(snapshot, key=itemgetter(1)): the first item whose item 1, the ts of an
\* ObsTuple, is the greatest
MaxByItem1(snapshot) ==
    LET i == CHOOSE i \in DOMAIN snapshot :
                 /\ \A j \in DOMAIN snapshot : snapshot[j].ts <= snapshot[i].ts
                 /\ \A j \in 1..(i - 1) : snapshot[j].ts < snapshot[i].ts
    IN  snapshot[i]

\* ScalarBuffer.history_max(ts, age)
Scalar_history_max(self, ts, age) ==
    IF ~self.has_history THEN Outcome(self, None, "AttributeError")
    ELSE LET born == ts - age
             snapshot == SelectSeq(self.history, LAMBDA a : a.ts >= born)
         IN  IF Len(snapshot) > 0
             THEN LET max == MaxByItem1(snapshot)
                  IN  Outcome(self, Some(ObsTuple(max.value, max.ts)), "none")
             ELSE Outcome(self, None, "none")

\* ScalarBuffer.history_avg(ts, age): the test is on the whole history, the
\* division on the filtered one
Scalar_history_avg(self, ts, age) ==
    IF ~self.has_history THEN Outcome(self, None, "AttributeError")
    ELSE IF Len(self.history) > 0
         THEN LET born == ts - age
                  rec == SelectSeq(self.history, LAMBDA a : a.ts >= born)
                  vals == [i \in DOMAIN rec |-> rec[i].value]
              IN  IF Len(rec) = 0 THEN Outcome(self, None, "ZeroDivisionError")
                  ELSE Outcome(self, Some(Quotient(SumSeq(vals), Len(rec))), "none")
         ELSE Outcome(self, None, "none")


(***************************************************************************)
(* class VectorBuffer.  val is the pair (w_speed, w_dir), each None or     *)
(* Some; last is Some(<<w_speed, w_dir>>); a history entry's value is the  *)
(* triple <<w_speed, cos term, sin term>>.                                 *)
(***************************************************************************)
\* VectorBuffer.__init__(stats, history, sum)
VectorBuffer(stats, history, sum) ==
    [ kind         |-> "vector",
      last         |-> None,
      lasttime     |-> None,
      day_min      |-> IF stats # None THEN The(stats).min ELSE None,
      day_mintime  |-> IF stats # None THEN The(stats).mintime ELSE None,
      day_max      |-> IF stats # None THEN The(stats).max ELSE None,
      day_maxtime  |-> IF stats # None THEN The(stats).maxtime ELSE None,
      has_history  |-> history,
      history      |-> <<>>,
      history_full |-> FALSE,
      day_sum      |-> IF sum THEN (IF stats # None THEN Some(The(stats).sum) ELSE Some(0))
                              ELSE None,
      day_xsum     |-> IF sum THEN (IF stats # None THEN Some(The(stats).xsum) ELSE Some(0))
                              ELSE None,
      day_ysum     |-> IF sum THEN (IF stats # None THEN Some(The(stats).ysum) ELSE Some(0))
                              ELSE None,
      nineam_sum   |-> IF sum THEN Some(0) ELSE None,
      interval_sum |-> IF sum THEN Some(0) ELSE None ]

\* VectorBuffer.trim_history(ts); called with a non-empty history
Vector_trim_history(self, ts) ==
    LET oldest_ts == ts - MAX_AGE
        tss == [i \in DOMAIN self.history |-> self.history[i].ts]
    IN  [self EXCEPT !.history_full = (MinOf(tss) <= oldest_ts),
                     !.history = SelectSeq(self.history, LAMBDA s : s.ts > oldest_ts)]

\* _add_value, lines 1754-1756
Vector_update_last(self, w_speed, w_dir, ts) ==
    IF self.lasttime = None \/ ts >= The(self.lasttime)
    THEN [self EXCEPT !.last = Some(<<w_speed, w_dir>>), !.lasttime = Some(ts)]
    ELSE self

\* _add_value, lines 1758-1760
Vector_update_min(self, w_speed, ts) ==
    IF self.day_min = None \/ w_speed < The(self.day_min)
    THEN [self EXCEPT !.day_min = Some(w_speed), !.day_mintime = Some(ts)]
    ELSE self

\* _add_value, lines 1761-1763
Vector_update_max(self, w_speed, ts) ==
    IF self.day_max = None \/ w_speed > The(self.day_max)
    THEN [self EXCEPT !.day_max = Some(w_speed), !.day_maxtime = Some(ts)]
    ELSE self

\* _add_value, lines 1764-1773: self.history is looked up first, then the
\* entry is built, where 90.0 - w_dir raises TypeError for a w_dir of None
Vector_add_history(self, w_speed, w_dir, ts) ==
    IF ~self.has_history THEN Outcome(self, None, "AttributeError")
    ELSE IF w_dir = None THEN Outcome(self, None, "TypeError")
    ELSE LET entry == ObsTuple(<<w_speed, CosTerm(The(w_dir)), SinTerm(The(w_dir))>>, ts)
         IN  Outcome(Vector_trim_history(
                         [self EXCEPT !.history = Append(self.history, entry)], ts),
                     None, "none")

\* _add_value, lines 1774-1778: day_sum is added to, day_xsum and day_ysum are
\* assigned the latest product; nineam_sum and interval_sum are not touched
Vector_add_sum(self, w_speed, w_dir) ==
    IF self.day_sum = None THEN Outcome(self, None, "AttributeError")
    ELSE LET s1 == [self EXCEPT !.day_sum = Some(The(self.day_sum) + w_speed)]
         IN  IF w_dir # None
             THEN Outcome([s1 EXCEPT !.day_xsum = Some(w_speed * CosTerm(The(w_dir))),
                                     !.day_ysum = Some(w_speed * SinTerm(The(w_dir)))],
                          None, "none")
             ELSE Outcome(s1, None, "none")

\* VectorBuffer._add_value((w_speed, w_dir), ts, hilo, history, sum)
Vector_add_value(self, w_speed, w_dir, ts, hilo, history, sum) ==
    IF w_speed = None THEN Outcome(self, None, "none")
    ELSE LET v  == The(w_speed)
             s1 == Vector_update_last(self, v, w_dir, ts)
             s2 == IF hilo THEN Vector_update_max(Vector_update_min(s1, v, ts), v, ts) ELSE s1
             h  == IF history THEN Vector_add_history(s2, v, w_dir, ts)
                              ELSE Outcome(s2, None, "none")
         IN  IF h.exc # "none" THEN h
             ELSE IF sum THEN Vector_add_sum(h.self, v, w_dir) ELSE h

\* VectorBuffer.day_reset(): the assignment to day_sum cannot raise; day_xsum
\* and day_ysum are not touched
Vector_day_reset(self) ==
    [self EXCEPT !.day_min = None, !.day_mintime = None,
                 !.day_max = None, !.day_maxtime = None,
                 !.day_sum = Some(0)]

\* VectorBuffer.nineam_reset()
Vector_nineam_reset(self) == [self EXCEPT !.nineam_sum = Some(0)]

\* VectorBuffer.interval_reset()
Vector_interval_reset(self) == [self EXCEPT !.interval_sum = Some(0)]

\* VectorBuffer.history_max(ts, age): with a non-empty snapshot the key
\* expression itemgetter(1)[0] is evaluated and raises TypeError (an
\* itemgetter cannot be subscripted) before max() is called
Vector_history_max(self, ts, age) ==
    IF ~self.has_history THEN Outcome(self, None, "AttributeError")
    ELSE LET born == ts - age
             snapshot == SelectSeq(self.history, LAMBDA a : a.ts >= born)
         IN  IF Len(snapshot) > 0
             THEN Outcome(self, None, "TypeError")
             ELSE Outcome(self, None, "none")

\* VectorBuffer.history_avg(ts, age): the mean of the speeds a.value[0]
Vector_history_avg(self, ts, age) ==
    IF ~self.has_history THEN Outcome(self, None, "AttributeError")
    ELSE LET born == ts - age
             rec == SelectSeq(self.history, LAMBDA a : a.ts >= born)
             snapshot == [i \in DOMAIN rec |-> rec[i].value[1]]
         IN  IF Len(snapshot) > 0
             THEN Outcome(self, Some(Quotient(SumSeq(snapshot), Len(snapshot))), "none")
             ELSE Outcome(self, None, "none")


(***************************************************************************)
(* One series and the calls made on it.                                    *)
(*   buf    the ScalarBuffer or VectorBuffer object                        *)
(*   flags  the hilo, hist and sum flags of the series' observation: the   *)
(*          buffer is built with history=hist, sum=sum and every           *)
(*          _add_value passes (hilo, hist, sum), as RtcrBuffer.add_value   *)
(*          and seed_scalar do for an observation of the manifests; the    *)
(*          seeded wind vector is built with a history and the sums and    *)
(*          run with a history alone                                       *)
(*   call   the last call: its name, arguments, return value, exception    *)
(*   added  history variable: the values added with hilo since the last    *)
(*          day_reset (or since creation)                                  *)
(*   max_ts history variable: the greatest timestamp of the samples        *)
(*          appended to the history so far (None before the first)         *)
(* The buffer of all series (class RtcrBuffer) has its own specification,  *)
(* RtcrSpec, further down, over the variables                              *)
(*   buffer the RtcrBuffer object                                          *)
(*   bcall  the last call made on it                                       *)
(* which stay None in this specification, as the variables of a single     *)
(* series do in RtcrSpec.  The packet cache (class CachedPacket) likewise  *)
(* has the specification CacheSpec over                                    *)
(*   cache      the CachedPacket object                                    *)
(*   ccall      the last call made on it                                   *)
(*   stored_in  for each cached field, the unit system its value was in    *)
(*              when it was stored (None for a record with no unit system) *)
(* and the function calc_trend the specification TrendSpec over            *)
(*   db     the archive the historical record is looked up in              *)
(*   tcall  the last call of calc_trend                                    *)
(* The service and its thread (classes RealtimeClientraw and               *)
(* RealtimeClientrawThread) have the specification ThreadSpec, which runs  *)
(* the thread's buffer and packet cache in buffer and cache, with          *)
(*   queue    rtcr_queue, the packages put and not yet got                 *)
(*   epc      the engine thread's position                                 *)
(*   wpc      the worker thread's position in run                          *)
(*   pkg      the package the worker has got                               *)
(*   next_id  the number of packages put so far                            *)
(*   thread   the attributes of the thread object that run uses            *)
(*   clock    the last reading of time.time()                              *)
(*   sent     the loop packages put, in the order they were put            *)
(*   applied  the loop packages given to the cache and to the buffer       *)
(*   actor    the thread that made the last step                           *)
(*   outcome  what process_packet did with the last loop packet            *)
(***************************************************************************)
VARIABLES buf, flags, call, added, max_ts, buffer, bcall, cache, ccall, stored_in,
          db, tcall,
          queue, epc, wpc, pkg, next_id, thread, clock, sent, applied, actor, outcome

vars == <<buf, flags, call, added, max_ts, buffer, bcall, cache, ccall, stored_in,
          db, tcall,
          queue, epc, wpc, pkg, next_id, thread, clock, sent, applied, actor, outcome>>

series_vars == <<buf, flags, call, added, max_ts>>

rtcr_vars == <<buffer, bcall>>

cache_vars == <<cache, ccall, stored_in>>

trend_vars == <<db, tcall>>

\* the variables of the components that follow the buffer, the cache and
\* calc_trend
thread_vars == <<queue, epc, wpc, pkg, next_id, thread, clock, sent, applied, actor, outcome>>

beyond_trend == <<thread_vars>>
beyond_cache == <<trend_vars, beyond_trend>>
beyond_rtcr == <<cache_vars, beyond_cache>>

\* a specification leaves the variables of the other components at None
NoSeries == buf = None /\ flags = None /\ call = None /\ added = {} /\ max_ts = None
NoRtcr == buffer = None /\ bcall = None
NoCache == cache = None /\ ccall = None /\ stored_in = None
NoTrend == db = None /\ tcall = None
NoThread ==
    /\ queue = None /\ epc = None /\ wpc = None /\ pkg = None /\ next_id = None
    /\ thread = None /\ clock = None /\ sent = None /\ applied = None
    /\ actor = None /\ outcome = None

\* the day statistics a series may be seeded with: none (a series created by
\* add_value), or the statistics of the day summary
Seeds ==
    {None,
     Some([min |-> Some(2), mintime |-> Some(0), max |-> Some(2), maxtime |-> Some(0),
           sum |-> 1, xsum |-> 1, ysum |-> 0])}

OptValues == {None} \cup {Some(v) : v \in Values}
OptSpeeds == {None} \cup {Some(v) : v \in Speeds}

Call(op, val, dir, ts, age, ret, exc) ==
    [op |-> op, val |-> val, dir |-> dir, ts |-> ts, age |-> age, ret |-> ret, exc |-> exc]

\* The flags a series is run with: those of the manifests, (hilo, hist, sum)
\* = (T, F, F) for the names of HILO_MANIFEST but windSpeed, (T, T, F) for
\* windSpeed, (F, T, F) for windDir and for the wind vector, (F, F, T) for
\* rain and (F, F, F) for rainRate; and hilo with sum, which no name has.
SeriesFlags ==
    {f \in [hilo : BOOLEAN, hist : BOOLEAN, sum : BOOLEAN] : f.hist => ~f.sum}

AllFlags == [hilo : BOOLEAN, hist : BOOLEAN, sum : BOOLEAN]

\* The objects a series of flags f starts as.  A ScalarBuffer is the one
\* add_value makes (no stats) or seed_scalar makes (the stats of the day
\* summary, which set the extremes whatever the flags are), with history =
\* f.hist and sum = f.sum.  A VectorBuffer is made likewise for the flags
\* that have no hilo with a history (the wind vector is run with a history
\* alone); for these flags it is also the VectorBuffer of seed_vector, which
\* has a history and the sums of the day summary.
NewSeries(f) ==
    {ScalarBuffer(stats, f.hist, f.sum) : stats \in Seeds}
    \cup (IF f.hilo /\ f.hist THEN {}
          ELSE {VectorBuffer(stats, f.hist, f.sum) : stats \in Seeds})
    \cup (IF f.hist /\ ~f.hilo
          THEN {VectorBuffer(stats, TRUE, TRUE) : stats \in Seeds \ {None}}
          ELSE {})

Init ==
    /\ flags \in SeriesFlags
    /\ buf \in NewSeries(flags)
    /\ call = Call("init", None, None, None, None, None, "none")
    /\ added = {}
    /\ max_ts = None
    /\ buffer = None
    /\ bcall = None
    /\ cache = None /\ ccall = None /\ stored_in = None
    /\ NoTrend /\ NoThread

\* The flags passed with a value: the series' own; a None value is offered
\* under every combination of flags.
CallFlags(val) == IF val = None THEN AllFlags ELSE {flags}

\* The model's bounds on a call of _add_value with outcome r: the history
\* and the sums stay within MaxHist and MaxSum.
AddWithinBounds(r) ==
    /\ Len(r.self.history) <= MaxHist
    /\ \A total \in {r.self.day_sum, r.self.nineam_sum, r.self.interval_sum} :
          total # None => The(total) <= MaxSum

\* the history variables after a call _add_value(val, ts, hilo, history, sum)
\* with outcome r
AddGhosts(val, ts, f, r) ==
    /\ added' = IF val # None /\ f.hilo THEN added \cup {The(val)} ELSE added
    /\ max_ts' = IF val # None /\ f.hist /\ r.exc = "none"
                    /\ (max_ts = None \/ ts > The(max_ts))
                 THEN Some(ts) ELSE max_ts

ScalarAddValue ==
    /\ buf.kind = "scalar"
    /\ \E val \in OptValues, ts \in Timestamps :
       \E f \in CallFlags(val) :
          LET r == Scalar_add_value(buf, val, ts, f.hilo, f.hist, f.sum)
          IN  /\ AddWithinBounds(r)
              /\ buf' = r.self
              /\ call' = Call("add_value", val, None, Some(ts), None, r.ret, r.exc)
              /\ AddGhosts(val, ts, f, r)
    /\ UNCHANGED <<flags, rtcr_vars, beyond_rtcr>>

VectorAddValue ==
    /\ buf.kind = "vector"
    /\ \E w_speed \in OptSpeeds, ts \in Timestamps :
       \E w_dir \in (IF w_speed = None THEN {None} ELSE Dirs), f \in CallFlags(w_speed) :
          LET r == Vector_add_value(buf, w_speed, w_dir, ts, f.hilo, f.hist, f.sum)
          IN  /\ AddWithinBounds(r)
              /\ buf' = r.self
              /\ call' = Call("add_value", w_speed, w_dir, Some(ts), None, r.ret, r.exc)
              /\ AddGhosts(w_speed, ts, f, r)
    /\ UNCHANGED <<flags, rtcr_vars, beyond_rtcr>>

DayReset ==
    /\ buf' = IF buf.kind = "scalar" THEN Scalar_day_reset(buf) ELSE Vector_day_reset(buf)
    /\ call' = Call("day_reset", None, None, None, None, None, "none")
    /\ added' = {}
    /\ UNCHANGED <<flags, max_ts, rtcr_vars, beyond_rtcr>>

\* nineam_reset() called on the series itself.  (The buffer's nineam_reset,
\* the one caller the program has, raises NameError before it reaches a
\* series: Rtcr_nineam_reset below.)
NineamReset ==
    /\ buf' = IF buf.kind = "scalar" THEN Scalar_nineam_reset(buf)
                                     ELSE Vector_nineam_reset(buf)
    /\ call' = Call("nineam_reset", None, None, None, None, None, "none")
    /\ UNCHANGED <<flags, added, max_ts, rtcr_vars, beyond_rtcr>>

IntervalReset ==
    /\ buf' = IF buf.kind = "scalar" THEN Scalar_interval_reset(buf)
                                     ELSE Vector_interval_reset(buf)
    /\ call' = Call("interval_reset", None, None, None, None, None, "none")
    /\ UNCHANGED <<flags, added, max_ts, rtcr_vars, beyond_rtcr>>

\* history_max(ts, age) dispatched on the class of the object
history_max(self, ts, age) ==
    IF self.kind = "scalar" THEN Scalar_history_max(self, ts, age)
                            ELSE Vector_history_max(self, ts, age)

\* history_avg(ts, age) dispatched on the class of the object
history_avg(self, ts, age) ==
    IF self.kind = "scalar" THEN Scalar_history_avg(self, ts, age)
                            ELSE Vector_history_avg(self, ts, age)

HistoryMax ==
    /\ buf.has_history
    /\ \E ts \in Timestamps, age \in Ages :
          LET r == history_max(buf, ts, age)
          IN  call' = Call("history_max", None, None, Some(ts), Some(age), r.ret, r.exc)
    /\ UNCHANGED <<buf, flags, added, max_ts, rtcr_vars, beyond_rtcr>>

HistoryAvg ==
    /\ buf.has_history
    /\ \E ts \in Timestamps, age \in Ages :
          LET r == history_avg(buf, ts, age)
          IN  call' = Call("history_avg", None, None, Some(ts), Some(age), r.ret, r.exc)
    /\ UNCHANGED <<buf, flags, added, max_ts, rtcr_vars, beyond_rtcr>>

Next ==
    \/ ScalarAddValue
    \/ VectorAddValue
    \/ DayReset
    \/ NineamReset
    \/ IntervalReset
    \/ HistoryMax
    \/ HistoryAvg

Spec == Init /\ [][Next]_vars


(***************************************************************************)
(* Properties of a series.                                                 *)
(***************************************************************************)
\* the scalar an entry of the history holds: the value, or the wind speed
Magnitude(self, entry) == IF self.kind = "scalar" THEN entry.value ELSE entry.value[1]

\* the entries of a history, as a set of indices, with ts >= born
FromBorn(self, born) == {i \in DOMAIN self.history : self.history[i].ts >= born}

\* the last call was an _add_value of a value (speed) that is not None
AddedValue(c) == c.op = "add_value" /\ c.val # None

\* what last holds after the sample of call c replaced it
SampleOf(self, c) ==
    IF self.kind = "scalar" THEN Some(The(c.val)) ELSE Some(<<The(c.val), c.dir>>)

\* the result of a query: what it returned and what it raised
Result(r) == <<r.ret, r.exc>>

\* C1: every value added with hi/lo tracking since the last day_reset (or
\* since creation) lies between day_min and day_max.
C1_ValuesWithinDayExtremes ==
    \A v \in added :
        /\ buf.day_min # None /\ buf.day_max # None
        /\ The(buf.day_min) <= v /\ v <= The(buf.day_max)

C1_Witness ==
    /\ AddedValue(call) /\ flags.hilo
    /\ Cardinality(added) >= 2
    /\ The(buf.day_min) < The(call.val) /\ The(call.val) < The(buf.day_max)

\* C2: when some entry has ts >= asOf - age, history_max returns (v, t) with
\* v the greatest value (speed) among those entries and t the timestamp of
\* an entry holding v.
C2_HistoryMaxIsGreatestValue ==
    (call.op = "history_max" /\ FromBorn(buf, The(call.ts) - The(call.age)) # {}) =>
        LET window == FromBorn(buf, The(call.ts) - The(call.age))
        IN  /\ call.exc = "none"
            /\ call.ret # None
            /\ \A i \in window : Magnitude(buf, buf.history[i]) <= The(call.ret).value
            /\ \E i \in window : /\ Magnitude(buf, buf.history[i]) = The(call.ret).value
                                 /\ buf.history[i].ts = The(call.ret).ts

\* C3: history_max and history_avg return None and raise nothing when no
\* entry has ts >= asOf - age, also when the history holds older entries.
C3_EmptyWindowGivesNone ==
    (/\ call.op \in {"history_max", "history_avg"}
     /\ FromBorn(buf, The(call.ts) - The(call.age)) = {}) =>
        (call.exc = "none" /\ call.ret = None)

\* the series without the entries newer than ts
UpTo(self, ts) == [self EXCEPT !.history = SelectSeq(self.history, LAMBDA a : a.ts <= ts)]

\* C4: an entry with a timestamp greater than ts does not contribute to
\* history_max(ts, age) or history_avg(ts, age): the result is that of the
\* same query on the history without those entries.
C4_NewerEntriesDoNotContribute ==
    /\ call.op = "history_max" =>
          <<call.ret, call.exc>> =
              Result(history_max(UpTo(buf, The(call.ts)), The(call.ts), The(call.age)))
    /\ call.op = "history_avg" =>
          <<call.ret, call.exc>> =
              Result(history_avg(UpTo(buf, The(call.ts)), The(call.ts), The(call.age)))

\* C5: adding a sample with a timestamp before ts - age leaves the outcomes
\* of history_max(ts, age) and history_avg(ts, age) as they were.
C5_OlderSampleLeavesQueries ==
    [][(call'.op = "add_value" /\ buf.has_history) =>
          \A ts \in Timestamps, age \in Ages :
              The(call'.ts) < ts - age =>
                  /\ Result(history_max(buf', ts, age)) = Result(history_max(buf, ts, age))
                  /\ Result(history_avg(buf', ts, age)) = Result(history_avg(buf, ts, age))
      ]_vars

\* C6: after _add_value of a value at ts on a history-tracked series the
\* history holds the new entry and no entry with timestamp <= ts - MAX_AGE.
C6_AddAppendsAndTrims ==
    (AddedValue(call) /\ flags.hist) =>
        /\ \E i \in DOMAIN buf.history :
              /\ buf.history[i].ts = The(call.ts)
              /\ Magnitude(buf, buf.history[i]) = The(call.val)
        /\ \A i \in DOMAIN buf.history : buf.history[i].ts > The(call.ts) - MAX_AGE

\* C7: every entry of the history is newer than T - MAX_AGE, T the greatest
\* timestamp of the samples added so far, whatever their order of arrival.
C7_HistoryWithinMaxAgeOfNewest ==
    (flags.hist /\ max_ts # None) =>
        \A i \in DOMAIN buf.history : buf.history[i].ts > The(max_ts) - MAX_AGE

\* C8: lasttime never decreases; a value with ts >= lasttime (or the first
\* one) replaces last and lasttime, a value with ts < lasttime leaves both.
C8_LastFollowsNewestTimestamp ==
    [][/\ buf.lasttime # None =>
             (buf'.lasttime # None /\ The(buf'.lasttime) >= The(buf.lasttime))
       /\ AddedValue(call') =>
             IF buf.lasttime = None \/ The(call'.ts) >= The(buf.lasttime)
             THEN buf'.last = SampleOf(buf, call') /\ buf'.lasttime = call'.ts
             ELSE buf'.last = buf.last /\ buf'.lasttime = buf.lasttime
      ]_vars

C8_Witness ==
    /\ AddedValue(call)
    /\ The(call.ts) < The(buf.lasttime)
    /\ buf.last # SampleOf(buf, call)

\* the day extremes of a series: <<day_min, day_mintime, day_max, day_maxtime>>
Extremes(self) == <<self.day_min, self.day_mintime, self.day_max, self.day_maxtime>>

\* C9: with hi/lo tracking the first value on unset extremes becomes day_min
\* and day_max with its timestamp; later day_min (day_max) and its timestamp
\* change only on a strictly smaller (larger) value, to that value and its
\* timestamp; apart from day_reset nothing else changes the extremes.
C9_ExtremesChangeOnStrictlyBeyond ==
    [][IF AddedValue(call') /\ flags.hilo
       THEN LET v == The(call'.val)
            IN  /\ IF buf.day_min = None \/ v < The(buf.day_min)
                   THEN buf'.day_min = Some(v) /\ buf'.day_mintime = call'.ts
                   ELSE buf'.day_min = buf.day_min /\ buf'.day_mintime = buf.day_mintime
                /\ IF buf.day_max = None \/ v > The(buf.day_max)
                   THEN buf'.day_max = Some(v) /\ buf'.day_maxtime = call'.ts
                   ELSE buf'.day_max = buf.day_max /\ buf'.day_maxtime = buf.day_maxtime
       ELSE call'.op # "day_reset" => Extremes(buf') = Extremes(buf)
      ]_vars

\* the scenario 10@1000, 15@1100, 5@1200 on this model's grid: 2@0, 3@TsStep,
\* 1@2*TsStep on an unseeded series give day_max 3@TsStep, day_min
\* 1@2*TsStep and last 1
C9_Witness ==
    /\ buf.kind = "scalar" /\ flags.hilo /\ added = {1, 2, 3}
    /\ call = Call("add_value", Some(1), None, Some(2 * TsStep), None, None, "none")
    /\ Extremes(buf) = <<Some(1), Some(2 * TsStep), Some(3), Some(TsStep)>>
    /\ buf.last = Some(1)

\* C10: _add_value of None (a None speed) changes nothing in the series and
\* raises nothing, whatever the flags.
C10_NoneValueChangesNothing ==
    [][(call'.op = "add_value" /\ call'.val = None) =>
          (buf' = buf /\ call'.exc = "none")
      ]_vars

C10_Witness ==
    /\ call.op = "add_value" /\ call.val = None /\ call.exc = "none"
    /\ buf.last # None
    /\ flags.hist /\ buf.history # <<>>

\* the three running sums of a series: <<day_sum, nineam_sum, interval_sum>>
Sums(self) == <<self.day_sum, self.nineam_sum, self.interval_sum>>

\* C11: day_reset sets day_min, day_max and their timestamps to None and, on
\* a series that tracks sums, day_sum to 0; it leaves history, nineam_sum,
\* interval_sum, last and lasttime as they were.
C11_DayResetClearsExtremesAndDaySum ==
    [][call'.op = "day_reset" =>
          /\ Extremes(buf') = <<None, None, None, None>>
          /\ flags.sum => buf'.day_sum = Some(0)
          /\ buf'.history = buf.history /\ buf'.history_full = buf.history_full
          /\ buf'.nineam_sum = buf.nineam_sum /\ buf'.interval_sum = buf.interval_sum
          /\ buf'.last = buf.last /\ buf'.lasttime = buf.lasttime
      ]_vars

\* a day_reset after values were added with hi/lo and sum tracking: the sums
\* other than day_sum still hold them
C11_Witness ==
    /\ call.op = "day_reset" /\ flags.hilo /\ flags.sum
    /\ buf.last # None
    /\ buf.day_sum = Some(0)
    /\ The(buf.nineam_sum) > 0 /\ The(buf.interval_sum) > 0

\* C12: nineam_reset sets nineam_sum to 0 and interval_reset sets
\* interval_sum to 0; each leaves the other two sums, the extremes, last,
\* lasttime and the history as they were.
C12_SumResetsTouchOnlyTheirSum ==
    [][/\ call'.op = "nineam_reset" =>
             /\ buf'.nineam_sum = Some(0)
             /\ buf'.day_sum = buf.day_sum /\ buf'.interval_sum = buf.interval_sum
       /\ call'.op = "interval_reset" =>
             /\ buf'.interval_sum = Some(0)
             /\ buf'.day_sum = buf.day_sum /\ buf'.nineam_sum = buf.nineam_sum
       /\ call'.op \in {"nineam_reset", "interval_reset"} =>
             /\ Extremes(buf') = Extremes(buf)
             /\ buf'.last = buf.last /\ buf'.lasttime = buf.lasttime
             /\ buf'.history = buf.history /\ buf'.history_full = buf.history_full
      ]_vars

\* both resets have acted on sums that held added values, and the day sum
\* and the extremes still hold them
C12_Witness ==
    /\ call.op = "interval_reset" /\ flags.sum /\ flags.hilo
    /\ buf.nineam_sum = Some(0) /\ buf.interval_sum = Some(0)
    /\ buf.day_sum = Some(MaxSum)
    /\ buf.day_max # None

\* C13: on a ScalarBuffer an _add_value of v with sum tracking adds v to
\* day_sum, nineam_sum and interval_sum, and no _add_value changes the
\* difference between two of the three sums.
C13_ScalarSumsAdvanceTogether ==
    [][(buf.kind = "scalar" /\ call'.op = "add_value") =>
          /\ (AddedValue(call') /\ flags.sum) =>
                /\ call'.exc = "none"
                /\ \A i \in 1..3 : Sums(buf')[i] = Some(The(Sums(buf)[i]) + The(call'.val))
          /\ \A i, j \in 1..3 :
                (Sums(buf)[i] # None /\ Sums(buf)[j] # None) =>
                    /\ Sums(buf')[i] # None /\ Sums(buf')[j] # None
                    /\ The(Sums(buf')[i]) - The(Sums(buf')[j])
                           = The(Sums(buf)[i]) - The(Sums(buf)[j])
      ]_vars

\* a value added to three sums that differ from one another
C13_Witness ==
    /\ buf.kind = "scalar" /\ flags.sum /\ AddedValue(call)
    /\ The(buf.day_sum) > The(buf.nineam_sum)
    /\ The(buf.nineam_sum) > The(buf.interval_sum)
    /\ The(buf.interval_sum) >= The(call.val)

\* C14: on a VectorBuffer an _add_value of (speed, direction) with sum
\* tracking adds the speed to day_sum, nineam_sum and interval_sum alike.
C14_VectorSumsAdvanceTogether ==
    [][(buf.kind = "vector" /\ AddedValue(call') /\ flags.sum) =>
          /\ call'.exc = "none"
          /\ \A i \in 1..3 : Sums(buf')[i] = Some(The(Sums(buf)[i]) + The(call'.val))
      ]_vars

\* C15: on a VectorBuffer an _add_value of (speed, direction), neither None,
\* with sum tracking adds speed * cos(90 - direction) to day_xsum and
\* speed * sin(90 - direction) to day_ysum, so that both hold their initial
\* value plus the sum of the products of all samples.
C15_VectorComponentSumsAccumulate ==
    [][(buf.kind = "vector" /\ AddedValue(call') /\ flags.sum /\ call'.dir # None) =>
          /\ buf'.day_xsum
                 = Some(The(buf.day_xsum) + The(call'.val) * CosTerm(The(call'.dir)))
          /\ buf'.day_ysum
                 = Some(The(buf.day_ysum) + The(call'.val) * SinTerm(The(call'.dir)))
      ]_vars

(***************************************************************************)
(* class RtcrBuffer: the dict of the series of all buffered observations,  *)
(* with the day's wind run.  The object is the record                      *)
(*   items              the dict's items: a function from the names of the *)
(*                      observations that have a series to their series    *)
(*   last_windSpeed_ts  the timestamp of the last wind sample, or None     *)
(*   windrun            the day's wind run, a fraction in lowest terms     *)
(* The buffer is the one RealtimeClientrawThread.run builds: its           *)
(* unit_system is the default weewx.METRICWX, and process_packet converts  *)
(* every packet to METRICWX before add_packet, so that to_std_system in    *)
(* add_packet returns the packet it is given.                              *)
(***************************************************************************)
MANIFEST == <<"outTemp", "barometer", "outHumidity", "rain", "rainRate",
              "humidex", "windchill", "heatindex", "windSpeed", "inTemp",
              "appTemp", "dewpoint", "windDir", "wind">>
HILO_MANIFEST == <<"outTemp", "barometer", "outHumidity",
                   "humidex", "windchill", "heatindex", "windSpeed", "inTemp",
                   "appTemp", "dewpoint">>
HIST_MANIFEST == <<"windSpeed", "windDir">>
SUM_MANIFEST == <<"rain">>

\* x in list
In(x, list) == \E i \in DOMAIN list : list[i] = x

\* the dict d after d[key] = value
SetItem(d, key, value) ==
    [k \in DOMAIN d \cup {key} |-> IF k = key THEN value ELSE d[k]]

\* the fraction a + num/den
FracAdd(a, num, den) == Quotient(a.num * den + num * a.den, a.den * den)

\* the packets' timestamps are 0, PacketStep, ..., MaxPacketTick * PacketStep
PacketStep == 6 * MAX_AGE
MaxPacketTick == 1
\* an add_packet is taken only if it leaves a wind run of at most this size
MaxRun == 36
\* and, in every series, a history of at most this length
MaxItemHist == 1

PacketTimes == {k * PacketStep : k \in 0..MaxPacketTick}

\* The observations loop packets hold, besides dateTime and usUnits: a
\* packet of the weather sensors (UV is not buffered), wind packets with a
\* speed in m/s and a direction, with a speed and no direction, and with no
\* reading, and a packet with a wind speed and rain.
PacketObs ==
    { [outTemp |-> Some(1), rain |-> Some(1), UV |-> Some(1)],
      [windSpeed |-> Some(10), windDir |-> Some(90)],
      [windSpeed |-> Some(10)],
      [windSpeed |-> None],
      [windSpeed |-> Some(10), rain |-> Some(1)] }

\* A loop packet as add_packet gets it: the record of its dateTime, its
\* usUnits and, in obs, its other keys with their values.
Packets ==
    {[dateTime |-> dt, usUnits |-> "METRICWX", obs |-> o] :
        dt \in {None} \cup {Some(t) : t \in PacketTimes}, o \in PacketObs}

\* the keys of a packet
Keys(packet) == {"dateTime", "usUnits"} \cup DOMAIN packet.obs

\* packet.get(key)
Get(packet, key) == IF key \in DOMAIN packet.obs THEN packet.obs[key] ELSE None

\* weewx.units.to_std_system(packet, unit_system) for a packet that is in
\* unit_system already
to_std_system(packet, unit_system) == packet

\* The day's statistics a buffer is seeded from: the day summary's unit
\* system and the statistics of the observations it holds (none, or those of
\* windSpeed, with wsum the sum of speed * interval).
DayStats ==
    {[unit_system |-> u, stats |-> st] :
        u \in {"METRIC", "METRICWX"},
        st \in {<<>>,
                [k \in {"windSpeed"} |->
                    [min |-> Some(10), mintime |-> Some(0),
                     max |-> Some(10), maxtime |-> Some(0),
                     sum |-> 10, xsum |-> 0, ysum |-> 0, wsum |-> 36000]]}}

\* RtcrBuffer.seed_windrun(day_stats): wsum as a speed in km/h (the day's
\* speed unit is km/h under METRIC and m/s, 3.6 km/h, under METRICWX),
\* divided by 3600
seed_windrun(day_stats) ==
    IF "windSpeed" \in DOMAIN day_stats.stats
    THEN LET wsum == day_stats.stats["windSpeed"].wsum
         IN  IF day_stats.unit_system = "METRIC" THEN Quotient(wsum, 3600)
                                                 ELSE Quotient(wsum * 18, 5 * 3600)
    ELSE Quotient(0, 1)

\* RtcrBuffer.seed_scalar and seed_vector, behind seed_functions and init_dict
seed(stats, obs_type, hist, sum) ==
    IF obs_type = "wind" THEN VectorBuffer(Some(stats), TRUE, TRUE)
                         ELSE ScalarBuffer(Some(stats), hist, sum)

\* RtcrBuffer.__init__(day_stats) with no additional_day_stats
RtcrBuffer(day_stats) ==
    [ items |-> [obs \in {f \in DOMAIN day_stats.stats : In(f, MANIFEST)} |->
                    seed(day_stats.stats[obs], obs,
                         In(obs, HIST_MANIFEST), In(obs, SUM_MANIFEST))],
      last_windSpeed_ts |-> None,
      windrun |-> seed_windrun(day_stats) ]

\* the member of a set of one member: Only({e(x) : x \in {d}}) is e(x) for
\* the x of value d
Only(S) == CHOOSE x \in S : TRUE

\* RtcrBuffer.add_value(packet, obs_type, hilo, hist, sum).  The _add_value
\* of a VectorBuffer unpacks its value into (w_speed, w_dir) and raises
\* TypeError for a packet's value, a number or None.
Rtcr_add_value(self, packet, obs_type, hilo, hist, sum) ==
    LET series == IF obs_type \in DOMAIN self.items THEN self.items[obs_type]
                  ELSE IF obs_type = "wind" THEN VectorBuffer(None, hist, sum)
                                            ELSE ScalarBuffer(None, hist, sum)
    IN  Only({Outcome([self EXCEPT !.items = SetItem(self.items, obs_type, r.self)],
                      None, r.exc) :
              r \in {IF series.kind = "scalar"
                     THEN Scalar_add_value(series, packet.obs[obs_type],
                                           The(packet.dateTime), hilo, hist, sum)
                     ELSE Outcome(series, None, "TypeError")}})

\* mutant of Rtcr_update_windrun: the elapsed time is taken from 0, not from
\* the last wind sample
Rtcr_update_windrun_FromZero(self, packet) ==
    IF "windSpeed" \in DOMAIN packet.obs
    THEN LET speed == packet.obs["windSpeed"]
             ts == The(packet.dateTime)
         IN  [self EXCEPT
                 !.windrun = IF speed # None /\ self.last_windSpeed_ts # None
                             THEN FracAdd(@, The(speed) * ts, 1000)
                             ELSE @,
                 !.last_windSpeed_ts = Some(ts)]
    ELSE self

\* add_wind_value, lines 2117-2123: the product raises TypeError, which is
\* passed over, for a speed of None and for a last_windSpeed_ts of None
Rtcr_update_windrun(self, packet) ==
    IF "windSpeed" \in DOMAIN packet.obs
    THEN LET speed == packet.obs["windSpeed"]
             ts == The(packet.dateTime)
         IN  [self EXCEPT
                 !.windrun = IF speed # None /\ self.last_windSpeed_ts # None
                             THEN FracAdd(@, The(speed) * (ts - The(self.last_windSpeed_ts)),
                                          1000)
                             ELSE @,
                 !.last_windSpeed_ts = Some(ts)]
    ELSE self

\* add_wind_value, lines 2125-2128, on the buffer b
Rtcr_add_wind_vector(b, packet) ==
    LET wind == IF "wind" \in DOMAIN b.items THEN b.items["wind"]
                                             ELSE VectorBuffer(None, TRUE, FALSE)
    IN  Only({Outcome([b EXCEPT !.items = SetItem(b.items, "wind", r.self)], None, r.exc) :
              r \in {Vector_add_value(wind, Get(packet, "windSpeed"),
                                      Get(packet, "windDir"), The(packet.dateTime),
                                      FALSE, TRUE, FALSE)}})

\* RtcrBuffer.add_wind_value(packet, obs_type, hilo, hist, sum)
Rtcr_add_wind_value(self, packet, obs_type, hilo, hist, sum) ==
    Only({IF a.exc # "none" THEN a
          ELSE Only({Rtcr_add_wind_vector(b, packet) :
                     b \in {Rtcr_update_windrun(a.self, packet)}}) :
          a \in {Rtcr_add_value(self, packet, obs_type, hilo, hist, sum)}})

\* the body of add_packet's loop for obs, with add_functions
Rtcr_add_obs(self, packet, obs) ==
    IF obs = "windSpeed"
    THEN Rtcr_add_wind_value(self, packet, obs, In(obs, HILO_MANIFEST),
                             In(obs, HIST_MANIFEST), In(obs, SUM_MANIFEST))
    ELSE Rtcr_add_value(self, packet, obs, In(obs, HILO_MANIFEST),
                        In(obs, HIST_MANIFEST), In(obs, SUM_MANIFEST))

\* add_packet's loop over order, the packet's keys that are in MANIFEST in
\* the order the dict yields them; an exception ends the loop
RECURSIVE Rtcr_add_all(_, _, _)
Rtcr_add_all(self, packet, order) ==
    IF order = <<>> THEN Outcome(self, None, "none")
    ELSE Only({IF r.exc # "none" THEN r ELSE Rtcr_add_all(r.self, packet, Tail(order)) :
               r \in {Rtcr_add_obs(self, packet, Head(order))}})

\* RtcrBuffer.add_packet(packet), the dict yielding the keys in order
Rtcr_add_packet(self, packet, order) ==
    LET p == to_std_system(packet, "METRICWX")
    IN  IF p.dateTime # None THEN Rtcr_add_all(self, p, order)
                             ELSE Outcome(self, None, "none")

\* the orders in which a dict may yield the keys of the set S
Orders(S) ==
    {o \in [1..Cardinality(S) -> S] : \A i, j \in 1..Cardinality(S) : o[i] = o[j] => i = j}

\* RtcrBuffer.start_of_day_reset(), from the i-th name of MANIFEST on:
\* self[obs] raises KeyError for a name that has no series
RECURSIVE Rtcr_day_reset_from(_, _)
Rtcr_day_reset_from(self, i) ==
    IF i > Len(MANIFEST) THEN Outcome(self, None, "none")
    ELSE IF MANIFEST[i] \notin DOMAIN self.items THEN Outcome(self, None, "KeyError")
    ELSE Only({Rtcr_day_reset_from(t, i + 1) :
               t \in {[self EXCEPT !.items[MANIFEST[i]] =
                          IF @.kind = "scalar" THEN Scalar_day_reset(@)
                                               ELSE Vector_day_reset(@)]}})

Rtcr_start_of_day_reset(self) == Rtcr_day_reset_from(self, 1)

\* RtcrBuffer.nineam_reset(): the loop is over SUM, a name that is not
\* defined, and raises NameError
Rtcr_nineam_reset(self) == Outcome(self, None, "NameError")

\* RealtimeClientrawThread.end_archive_period() on self.buffer, from the
\* i-th name of SUM_MANIFEST on
RECURSIVE end_archive_period_from(_, _)
end_archive_period_from(self, i) ==
    IF i > Len(SUM_MANIFEST) THEN Outcome(self, None, "none")
    ELSE IF SUM_MANIFEST[i] \notin DOMAIN self.items THEN Outcome(self, None, "KeyError")
    ELSE Only({end_archive_period_from(t, i + 1) :
               t \in {[self EXCEPT !.items[SUM_MANIFEST[i]] =
                          IF @.kind = "scalar" THEN Scalar_interval_reset(@)
                                               ELSE Vector_interval_reset(@)]}})

end_archive_period(self) == end_archive_period_from(self, 1)

\* VectorBuffer.vec_dir: 90 - degrees(atan2(day_ysum, day_xsum)), plus 360 if
\* negative, for sums on the axes; a series built without sum has no
\* day_ysum and the read raises AttributeError
Vector_vec_dir(self) ==
    IF self.day_ysum = None THEN Outcome(self, None, "AttributeError")
    ELSE LET x == The(self.day_xsum)
             y == The(self.day_ysum)
         IN  Outcome(self,
                     Some(CASE y = 0 /\ x >= 0 -> 90 [] y = 0 /\ x < 0 -> 270
                            [] x = 0 /\ y > 0 -> 0   [] x = 0 /\ y < 0 -> 180),
                     "none")

\* dict.__getitem__, which RtcrBuffer inherits: self[key]
Rtcr_getitem(self, key) ==
    IF key \in DOMAIN self.items THEN Outcome(self, Some(self.items[key]), "none")
                                 ELSE Outcome(self, None, "KeyError")

\* calculate, field 117: self.buffer['wind'].vec_dir
calculate_117(self) ==
    Only({IF r.exc # "none" THEN r
          ELSE Only({Outcome(self, v.ret, v.exc) : v \in {Vector_vec_dir(The(r.ret))}}) :
          r \in {Rtcr_getitem(self, "wind")}})

\* calculate, field 162: self.buffer['rain'].nineam_sum
calculate_162(self) ==
    Only({IF r.exc # "none" THEN r
          ELSE IF The(r.ret).nineam_sum = None THEN Outcome(self, None, "AttributeError")
          ELSE Outcome(self, The(r.ret).nineam_sum, "none") :
          r \in {Rtcr_getitem(self, "rain")}})

\* calculate, field 165, for a packet with no dayRain: dayRain is the
\* day_sum of rain if 'rain' in self.buffer, else None, and the field is
\* dayRain if dayRain is not None else 0.0
calculate_165(self) ==
    IF "rain" \in DOMAIN self.items
    THEN Only({IF The(r.ret).day_sum = None THEN Outcome(self, None, "AttributeError")
               ELSE Outcome(self, The(r.ret).day_sum, "none") :
               r \in {Rtcr_getitem(self, "rain")}})
    ELSE Outcome(self, Some(0), "none")

\* the fields 117, 162 and 165 as calculate works them out from the buffer
calculate_field(self, field) ==
    CASE field = "117" -> calculate_117(self)
      [] field = "162" -> calculate_162(self)
      [] field = "165" -> calculate_165(self)

(***************************************************************************)
(* The buffer and the calls made on it.  bcall is the last call: its name, *)
(* the packet given (None for the resets) and the exception raised.        *)
(***************************************************************************)
BufferCall(op, packet, exc) == [op |-> op, packet |-> packet, exc |-> exc]

RtcrInit ==
    /\ buffer \in {RtcrBuffer(day_stats) : day_stats \in DayStats}
    /\ bcall = BufferCall("init", None, "none")
    /\ buf = None /\ flags = None /\ call = None /\ added = {} /\ max_ts = None
    /\ cache = None /\ ccall = None /\ stored_in = None
    /\ NoTrend /\ NoThread

\* the model's bounds on the buffer r.self an add_packet leaves
PacketWithinBounds(r) ==
    /\ \A obs \in DOMAIN r.self.items :
          /\ Len(r.self.items[obs].history) <= MaxItemHist
          /\ \A total \in {r.self.items[obs].day_sum, r.self.items[obs].nineam_sum,
                           r.self.items[obs].interval_sum} :
                total # None => The(total) <= MaxSum
    /\ r.self.windrun.num <= MaxRun * r.self.windrun.den
    /\ -r.self.windrun.num <= MaxRun * r.self.windrun.den

AddPacket ==
    /\ \E packet \in Packets :
       \E order \in Orders({f \in Keys(packet) : In(f, MANIFEST)}) :
       \E r \in {Rtcr_add_packet(buffer, packet, order)} :
          /\ PacketWithinBounds(r)
          /\ buffer' = r.self
          /\ bcall' = BufferCall("add_packet", packet, r.exc)
    /\ UNCHANGED <<series_vars, beyond_rtcr>>

StartOfDayReset ==
    /\ \E r \in {Rtcr_start_of_day_reset(buffer)} :
          /\ buffer' = r.self
          /\ bcall' = BufferCall("start_of_day_reset", None, r.exc)
    /\ UNCHANGED <<series_vars, beyond_rtcr>>

BufferNineamReset ==
    /\ \E r \in {Rtcr_nineam_reset(buffer)} :
          /\ buffer' = r.self
          /\ bcall' = BufferCall("nineam_reset", None, r.exc)
    /\ UNCHANGED <<series_vars, beyond_rtcr>>

EndArchivePeriod ==
    /\ \E r \in {end_archive_period(buffer)} :
          /\ buffer' = r.self
          /\ bcall' = BufferCall("end_archive_period", None, r.exc)
    /\ UNCHANGED <<series_vars, beyond_rtcr>>

\* calculate's read of the buffer for one of its fields; bcall.packet holds
\* the field's number
Calculate ==
    /\ \E field \in {"117", "162", "165"} :
       \E r \in {calculate_field(buffer, field)} :
          /\ buffer' = r.self
          /\ bcall' = BufferCall("calculate", field, r.exc)
    /\ UNCHANGED <<series_vars, beyond_rtcr>>

RtcrNext ==
    \/ AddPacket
    \/ StartOfDayReset
    \/ BufferNineamReset
    \/ EndArchivePeriod
    \/ Calculate

RtcrSpec == RtcrInit /\ [][RtcrNext]_vars

(***************************************************************************)
(* Properties of the buffer.                                               *)
(***************************************************************************)
\* the last call was an add_packet of a packet with a dateTime
AddedPacket(c) == c.op = "add_packet" /\ c.packet.dateTime # None

\* the last call was an add_packet of a wind sample: a packet with a
\* dateTime and the key windSpeed
AddedWind(c) == AddedPacket(c) /\ "windSpeed" \in DOMAIN c.packet.obs

\* the series add_value creates for obs and gives the packet's value to
FirstSeries(packet, obs) ==
    Scalar_add_value(ScalarBuffer(None, In(obs, HIST_MANIFEST), In(obs, SUM_MANIFEST)),
                     packet.obs[obs], The(packet.dateTime),
                     In(obs, HILO_MANIFEST), In(obs, HIST_MANIFEST),
                     In(obs, SUM_MANIFEST)).self

\* C16: add_packet leaves series under names of MANIFEST only; it leaves
\* alone the series of every name that is not a key of the packet (but wind,
\* which belongs to the key windSpeed); and for a key of MANIFEST that has no
\* series it creates the series and gives it the packet's value.
C16_AddPacketTouchesManifestKeysOnly ==
    [][bcall'.op = "add_packet" =>
          LET packet == bcall'.packet
          IN  /\ \A obs \in DOMAIN buffer'.items : In(obs, MANIFEST)
              /\ \A obs \in DOMAIN buffer.items :
                    (obs \notin Keys(packet) /\ ~(obs = "wind" /\ "windSpeed" \in Keys(packet)))
                        => (obs \in DOMAIN buffer'.items
                            /\ buffer'.items[obs] = buffer.items[obs])
              /\ AddedPacket(bcall') =>
                    \A key \in Keys(packet) :
                        (In(key, MANIFEST) /\ key \notin DOMAIN buffer.items)
                            => (key \in DOMAIN buffer'.items
                                /\ buffer'.items[key] = FirstSeries(packet, key))
      ]_vars

\* C17 as stated: a wind sample with a speed, after an earlier wind sample,
\* adds speed * (dateTime - last_windSpeed_ts) / 3600 to windrun.
C17_WindrunAddsSpeedTimesElapsedOver3600 ==
    [][(AddedWind(bcall') /\ bcall'.packet.obs["windSpeed"] # None
            /\ buffer.last_windSpeed_ts # None) =>
          buffer'.windrun =
              FracAdd(buffer.windrun,
                      The(bcall'.packet.obs["windSpeed"])
                         * (The(bcall'.packet.dateTime) - The(buffer.last_windSpeed_ts)),
                      3600)
      ]_vars

\* C17 amended: a wind sample with a speed (in m/s, the buffer's unit),
\* after an earlier wind sample, adds
\* speed * (dateTime - last_windSpeed_ts) / 1000 to windrun, the distance in
\* km; a wind sample with no speed leaves windrun as it is.
C17_WindrunAddsSpeedTimesElapsedOver1000 ==
    [][AddedWind(bcall') =>
          IF bcall'.packet.obs["windSpeed"] # None /\ buffer.last_windSpeed_ts # None
          THEN buffer'.windrun =
                   FracAdd(buffer.windrun,
                           The(bcall'.packet.obs["windSpeed"])
                              * (The(bcall'.packet.dateTime) - The(buffer.last_windSpeed_ts)),
                           1000)
          ELSE buffer'.windrun = buffer.windrun
      ]_vars

\* from a wind run of 0, 10 m/s (36 km/h) at 0 and again at 3600 give a wind
\* run of 36: the sample at 3600 has pushed the one at 0 out of the history
C17_Witness ==
    /\ AddedWind(bcall) /\ bcall.exc = "none"
    /\ bcall.packet.obs["windSpeed"] = Some(10)
    /\ bcall.packet.dateTime = Some(3600)
    /\ buffer.items["windSpeed"].history_full
    /\ buffer.items["windSpeed"].day_mintime = Some(0)
    /\ buffer.windrun = Quotient(36, 1)

\* C18: the first wind sample of a buffer leaves windrun as it was, raises
\* nothing and records its dateTime in last_windSpeed_ts.
C18_FirstWindSampleAddsNoRun ==
    [][(AddedWind(bcall') /\ buffer.last_windSpeed_ts = None) =>
          /\ buffer'.windrun = buffer.windrun
          /\ bcall'.exc = "none"
          /\ buffer'.last_windSpeed_ts = bcall'.packet.dateTime
      ]_vars

\* C19: start_of_day_reset and end_archive_period raise nothing, also when
\* names of their manifest have no series; the first leaves every series
\* with the extremes unset, the second every series of SUM_MANIFEST with an
\* interval_sum of 0.
C19_ResetsSkipAbsentSeries ==
    [][/\ bcall'.op \in {"start_of_day_reset", "end_archive_period"} =>
             (bcall'.exc = "none" /\ DOMAIN buffer'.items = DOMAIN buffer.items)
       /\ bcall'.op = "start_of_day_reset" =>
             \A obs \in DOMAIN buffer'.items :
                 Extremes(buffer'.items[obs]) = <<None, None, None, None>>
       /\ bcall'.op = "end_archive_period" =>
             \A obs \in DOMAIN buffer'.items :
                 In(obs, SUM_MANIFEST) => buffer'.items[obs].interval_sum = Some(0)
      ]_vars

\* C20: RtcrBuffer.nineam_reset raises nothing, leaves every series that
\* tracks sums with a nineam_sum of 0 and changes nothing else.
C20_BufferNineamResetClearsNineamSums ==
    [][bcall'.op = "nineam_reset" =>
          /\ bcall'.exc = "none"
          /\ DOMAIN buffer'.items = DOMAIN buffer.items
          /\ \A obs \in DOMAIN buffer.items :
                buffer'.items[obs] =
                    IF buffer.items[obs].nineam_sum # None
                    THEN [buffer.items[obs] EXCEPT !.nineam_sum = Some(0)]
                    ELSE buffer.items[obs]
      ]_vars

\* C21: every read calculate makes of the series of a name that has no
\* series in the buffer raises nothing and yields no value of a series: the
\* field is None, or the 0.0 calculate writes in field 165 when the day's
\* rain is absent; the reads are those of the fields 117 (the day's average
\* wind direction), 162 (the rain since 9am) and 165 (the day's rain).
C21_ReadOfAbsentSeriesYieldsNone ==
    [][bcall'.op = "calculate" =>
          LET name == IF bcall'.packet = "117" THEN "wind" ELSE "rain"
          IN  name \notin DOMAIN buffer.items =>
                  /\ bcall'.exc = "none"
                  /\ calculate_field(buffer, bcall'.packet).ret =
                         IF bcall'.packet = "165" THEN Some(0) ELSE None
                  /\ buffer' = buffer
      ]_vars

(***************************************************************************)
(* class CachedPacket: the cache of the last value seen of every field.    *)
(* A dict (an archive record, a loop packet, the packet returned) is a     *)
(* function from its keys to their values, None or Some(x); a key the dict *)
(* does not have is outside its DOMAIN.  The object is the record          *)
(*   cache        the dict of the cached fields: a function from the names *)
(*                to the records [value, ts]                               *)
(*   unit_system  None or Some of the unit system                          *)
(* time.time() is drawn by the caller and passed as now.                   *)
(***************************************************************************)
OBS == <<"cloudbase", "windDir", "windrun", "inHumidity", "outHumidity",
         "barometer", "radiation", "rain", "rainRate", "windSpeed",
         "appTemp", "dewpoint", "heatindex", "humidex", "inTemp",
         "outTemp", "windchill", "UV">>

\* the times of the cache's model are 0, CacheStep, ..., MaxCacheTick * CacheStep
CacheStep == MAX_AGE
MaxCacheTick == 2
\* and the greatest max_age is MaxCacheAgeTick * CacheStep
MaxCacheAgeTick == 1

CacheTimes == {k * CacheStep : k \in 0..MaxCacheTick}
CacheAges == {k * CacheStep : k \in 0..MaxCacheAgeTick}

\* the keys of a dict that are no observations
Meta == {"dateTime", "usUnits"}

\* the observations that hold a temperature: degree_F under US, degree_C
\* under METRIC and METRICWX
Temperatures == {"outTemp", "inTemp", "extraTemp1", "appTemp", "dewpoint",
                 "heatindex", "humidex", "windchill"}

\* weewx.units.convertStd of the value of obs from one unit system to
\* another, for the temperatures and for the observations whose unit is the
\* same in both (windDir, in degree_compass); None stays None
convertStd(value, obs, from, to) ==
    IF value = None \/ from = to \/ obs \notin Temperatures THEN value
    ELSE IF from = "US" THEN Some(((The(value) - 32) * 5) \div 9)
                        ELSE Some((The(value) * 9) \div 5 + 32)

\* weewx.units.to_std_system(packet, unit_system) for a packet of any unit
\* system: every observation converted, usUnits set to the target
units_to_std_system(packet, unit_system) ==
    IF packet["usUnits"] = Some(unit_system) THEN packet
    ELSE [k \in DOMAIN packet |->
             IF k = "usUnits" THEN Some(unit_system)
             ELSE IF k = "dateTime" THEN packet[k]
             ELSE convertStd(packet[k], k, The(packet["usUnits"]), unit_system)]

\* mutant of CachedPacket: only the fields the record has get an entry
CachedPacket_PresentOnly(rec, now) ==
    LET _ts == IF "dateTime" \in DOMAIN rec THEN rec["dateTime"] ELSE Some(now)
    IN  [ cache |-> [_obs \in {OBS[i] : i \in DOMAIN OBS} \cap DOMAIN rec |->
                        [value |-> rec[_obs], ts |-> _ts]],
          unit_system |-> IF "usUnits" \in DOMAIN rec THEN rec["usUnits"] ELSE None ]

\* CachedPacket.__init__(rec), time.time() giving now
CachedPacket(rec, now) ==
    LET _ts == IF "dateTime" \in DOMAIN rec THEN rec["dateTime"] ELSE Some(now)
    IN  [ cache |-> [_obs \in {OBS[i] : i \in DOMAIN OBS} |->
                        IF _obs \in DOMAIN rec /\ "usUnits" \in DOMAIN rec
                        THEN [value |-> rec[_obs], ts |-> _ts]
                        ELSE [value |-> None, ts |-> _ts]],
          unit_system |-> IF "usUnits" \in DOMAIN rec THEN rec["usUnits"] ELSE None ]

\* the packet update stores from: the packet given or its conversion
Cache_converted(self, packet) ==
    IF self.unit_system = None \/ self.unit_system = packet["usUnits"]
    THEN packet
    ELSE units_to_std_system(packet, The(self.unit_system))

\* the fields update stores: the packet's keys but dateTime and usUnits
\* whose value is not None
Cache_stored(p) == {obs \in DOMAIN p \ Meta : p[obs] # None}

\* mutant of Cache_update: a None value is stored like any other
Cache_update_StoresNone(self, packet, ts) ==
    LET p == Cache_converted(self, packet)
    IN  [ cache |-> [obs \in DOMAIN self.cache \cup (DOMAIN p \ Meta) |->
                        IF obs \in DOMAIN p \ Meta
                        THEN [value |-> p[obs], ts |-> Some(ts)]
                        ELSE self.cache[obs]],
          unit_system |-> IF self.unit_system = None THEN packet["usUnits"]
                                                     ELSE self.unit_system ]

\* CachedPacket.update(packet, ts)
Cache_update(self, packet, ts) ==
    LET p == Cache_converted(self, packet)
    IN  [ cache |-> [obs \in DOMAIN self.cache \cup Cache_stored(p) |->
                        IF obs \in Cache_stored(p)
                        THEN [value |-> p[obs], ts |-> Some(ts)]
                        ELSE self.cache[obs]],
          unit_system |-> IF self.unit_system = None THEN packet["usUnits"]
                                                     ELSE self.unit_system ]

\* mutant of Cache_get_value: an entry of the age max_age is not returned
Cache_get_value_Strict(self, obs, ts, max_age) ==
    IF obs \in DOMAIN self.cache /\ ts - The(self.cache[obs].ts) < max_age
    THEN self.cache[obs].value
    ELSE None

\* CachedPacket.get_value(obs, ts, max_age)
Cache_get_value(self, obs, ts, max_age) ==
    IF obs \in DOMAIN self.cache /\ ts - The(self.cache[obs].ts) <= max_age
    THEN self.cache[obs].value
    ELSE None

\* CachedPacket.get_packet(ts, max_age), time.time() giving now; ts is None
\* or Some of a time
Cache_get_packet(self, ts, max_age, now) ==
    LET t == IF ts = None THEN now ELSE The(ts)
    IN  [k \in Meta \cup DOMAIN self.cache |->
            IF k \in DOMAIN self.cache THEN Cache_get_value(self, k, t, max_age)
            ELSE IF k = "dateTime" THEN Some(t)
            ELSE self.unit_system]

(***************************************************************************)
(* The cache and the calls made on it.                                     *)
(***************************************************************************)
\* the observations of the records and packets given to the cache, in the
\* unit system u: none, a temperature, a null temperature, and a wind
\* direction with a field that is not in OBS
CacheObs(u) ==
    LET temp == IF u = Some("US") THEN Some(50) ELSE Some(5)
    IN  {<<>>, [outTemp |-> temp], [outTemp |-> None],
         [windDir |-> Some(90), extraTemp1 |-> temp]}

\* The archive records a cache is built from: with a dateTime or with none,
\* with a unit system, with a usUnits of None (the record
\* RealtimeClientrawThread.run makes up when the archive is empty) or with
\* no usUnits.
RefRecords ==
    {d @@ u @@ o :
        d \in {<<>>, [dateTime |-> Some(0)]},
        u \in {<<>>, [usUnits |-> None], [usUnits |-> Some("METRICWX")],
               [usUnits |-> Some("US")]},
        o \in CacheObs(Some("METRICWX")) \cup CacheObs(Some("US"))}

\* the loop packets given to update: each has a dateTime and a unit system
CachePackets ==
    UNION {{[dateTime |-> Some(t), usUnits |-> u] @@ o : o \in CacheObs(u) \ {<<>>},
                                                         t \in CacheTimes} :
           u \in {Some("METRICWX"), Some("US")}}

CacheCall(op, packet, ts, max_age, now, ret) ==
    [op |-> op, packet |-> packet, ts |-> ts, max_age |-> max_age, now |-> now, ret |-> ret]

CacheInit ==
    /\ \E rec \in RefRecords : \E now \in CacheTimes :
          /\ cache = CachedPacket(rec, now)
          /\ ccall = CacheCall("init", rec, None, None, Some(now), None)
          /\ stored_in = [obs \in DOMAIN cache.cache |-> cache.unit_system]
    /\ NoSeries /\ NoRtcr /\ NoTrend /\ NoThread

CacheUpdate ==
    /\ \E packet \in CachePackets : \E ts \in CacheTimes :
          /\ cache' = Cache_update(cache, packet, ts)
          /\ ccall' = CacheCall("update", packet, Some(ts), None, None, None)
          /\ stored_in' =
                 [obs \in DOMAIN cache'.cache |->
                     IF obs \in Cache_stored(Cache_converted(cache, packet))
                     THEN Cache_converted(cache, packet)["usUnits"]
                     ELSE stored_in[obs]]
    /\ UNCHANGED <<series_vars, rtcr_vars, beyond_cache>>

\* get_packet reads the clock only if it is given no ts; ccall.now is then
\* Some of the time read, and None otherwise
CacheGetPacket ==
    /\ \E ts \in {None} \cup {Some(t) : t \in CacheTimes} :
       \E max_age \in CacheAges :
       \E now \in IF ts = None THEN CacheTimes ELSE {The(ts)} :
          /\ ccall' = CacheCall("get_packet", None, ts, max_age,
                                IF ts = None THEN Some(now) ELSE None,
                                Cache_get_packet(cache, ts, max_age, now))
    /\ UNCHANGED <<cache, stored_in, series_vars, rtcr_vars, beyond_cache>>

CacheNext ==
    \/ CacheUpdate
    \/ CacheGetPacket

CacheSpec == CacheInit /\ [][CacheNext]_vars

(***************************************************************************)
(* Properties of the packet cache.                                         *)
(***************************************************************************)
\* the time a get_packet call c measures ages from
AsOf(c) == IF c.ts = None THEN The(c.now) ELSE The(c.ts)

\* the age of the entry of obs at the time of the get_packet call c
AgeOf(self, obs, c) == AsOf(c) - The(self.cache[obs].ts)

\* C22: the cache always has an entry for every name of OBS, and the packet
\* get_packet returns has a key for every cached field (and dateTime and
\* usUnits), with None for every entry older than max_age.
C22_CacheCoversOBS ==
    /\ \A i \in DOMAIN OBS : OBS[i] \in DOMAIN cache.cache
    /\ ccall.op = "get_packet" =>
          /\ DOMAIN ccall.ret = DOMAIN cache.cache \cup Meta
          /\ \A obs \in DOMAIN cache.cache :
                AgeOf(cache, obs, ccall) > ccall.max_age => ccall.ret[obs] = None

\* a packet got from a cache that has a field beyond OBS, with a fresh value
\* returned and an entry that holds a value returned as None for its age
C22_Witness ==
    /\ ccall.op = "get_packet"
    /\ "extraTemp1" \in DOMAIN cache.cache
    /\ ccall.ret["extraTemp1"] # None
    /\ cache.cache["outTemp"].value # None /\ ccall.ret["outTemp"] = None
    /\ ccall.ret["UV"] = None

\* C23: get_packet returns for every cached field the cached value if the
\* time asked for less the entry's timestamp is at most max_age, and None
\* otherwise, and leaves the cache as it was.
C23_GetPacketReturnsWithinMaxAge ==
    [][ccall'.op = "get_packet" =>
          /\ cache' = cache
          /\ \A obs \in DOMAIN cache.cache :
                ccall'.ret[obs] = IF AgeOf(cache, obs, ccall') <= ccall'.max_age
                                  THEN cache.cache[obs].value
                                  ELSE None
      ]_vars

\* a value of the age max_age exactly is returned, next to an older one
\* that is not
C23_Witness ==
    /\ ccall.op = "get_packet" /\ ccall.max_age > 0
    /\ \E obs \in DOMAIN cache.cache :
          /\ AgeOf(cache, obs, ccall) = ccall.max_age
          /\ cache.cache[obs].value # None
          /\ ccall.ret[obs] = cache.cache[obs].value
    /\ \E obs \in DOMAIN cache.cache :
          /\ AgeOf(cache, obs, ccall) > ccall.max_age
          /\ cache.cache[obs].value # None
          /\ ccall.ret[obs] = None

\* C24: update(packet, ts) sets the entry of every field of the packet,
\* but dateTime and usUnits, whose value is not None to that value (in the
\* cache's unit system) with the timestamp ts, and leaves every other entry
\* as it was: those of the fields that are None in the packet and those of
\* the fields the packet does not have.
C24_UpdateStoresNonNullFieldsOnly ==
    [][ccall'.op = "update" =>
          LET packet == ccall'.packet
              given == {obs \in DOMAIN packet \ Meta : packet[obs] # None}
          IN  /\ DOMAIN cache'.cache = DOMAIN cache.cache \cup given
              /\ \A obs \in given :
                    cache'.cache[obs] =
                        [value |-> convertStd(packet[obs], obs, The(packet["usUnits"]),
                                              The(cache'.unit_system)),
                         ts |-> ccall'.ts]
              /\ \A obs \in DOMAIN cache.cache \ given :
                    cache'.cache[obs] = cache.cache[obs]
      ]_vars

\* an update with a None outTemp at a later time has left the outTemp
\* stored before, with its timestamp
C24_Witness ==
    /\ ccall.op = "update"
    /\ "outTemp" \in DOMAIN ccall.packet /\ ccall.packet["outTemp"] = None
    /\ cache.cache["outTemp"].value # None
    /\ The(cache.cache["outTemp"].ts) < The(ccall.ts)

\* C25: an update of a cache with no unit system adopts the packet's; an
\* update of a cache with a unit system leaves it; and every value the
\* cache holds was stored in the cache's unit system.
C25_CacheNeverMixesUnits ==
    /\ [][ccall'.op = "update" =>
             cache'.unit_system = IF cache.unit_system = None THEN ccall'.packet["usUnits"]
                                                              ELSE cache.unit_system
         ]_vars
    /\ [](\A obs \in DOMAIN cache.cache :
             (cache.unit_system # None /\ cache.cache[obs].value # None)
                 => stored_in[obs] = cache.unit_system)

\* C26: on construction from the record rec every field of OBS gets the
\* record's value if the record has the field and has a usUnits that is not
\* None, and None otherwise, with the record's dateTime as timestamp, or the
\* current time if the record has none.
C26_ConstructionPrimesKnownUnitsOnly ==
    ccall.op = "init" =>
        LET rec == ccall.packet
        IN  \A i \in DOMAIN OBS :
               cache.cache[OBS[i]] =
                   [value |-> IF /\ OBS[i] \in DOMAIN rec
                                 /\ "usUnits" \in DOMAIN rec
                                 /\ rec["usUnits"] # None
                              THEN rec[OBS[i]] ELSE None,
                    ts |-> IF "dateTime" \in DOMAIN rec THEN rec["dateTime"] ELSE ccall.now]

(***************************************************************************)
(* calc_trend(obs_type, now_vt, db_manager, then_ts, grace): the change of *)
(* an observation since the archive record of then_ts.  now_vt is the      *)
(* record [value, unit]; an archive record is a dict with its dateTime,    *)
(* its usUnits and its observations; the archive db is a set of records.   *)
(***************************************************************************)
\* the times of the archive records and of then_ts are 0, TrendStep, ...,
\* MaxTrendTick * TrendStep, and the graces 0 and TrendStep
TrendStep == MAX_AGE \div 2
MaxTrendTick == 1

TrendTimes == {k * TrendStep : k \in 0..MaxTrendTick}

\* weewx.units.as_value_tuple(record, obs_type): the value with the unit the
\* observation has in the record's unit system
as_value_tuple(record, obs_type) ==
    [value |-> record[obs_type],
     unit |-> IF obs_type \in Temperatures
              THEN (IF record["usUnits"] = Some("US") THEN "degree_F" ELSE "degree_C")
              ELSE "percent"]

\* weewx.units.convert(vt, unit) between degree_F and degree_C
convert(vt, unit) ==
    [value |-> IF vt.value = None \/ vt.unit = unit THEN vt.value
               ELSE IF vt.unit = "degree_F" THEN Some(((The(vt.value) - 32) * 5) \div 9)
               ELSE Some((The(vt.value) * 9) \div 5 + 32),
     unit |-> unit]

\* db_manager.getRecord(then_ts, grace): the results the archive db may
\* give, None or a record of the least distance from then_ts among those
\* within grace of it
getRecord(archive, then_ts, grace) ==
    LET Dist(r) == IF The(r["dateTime"]) >= then_ts THEN The(r["dateTime"]) - then_ts
                                                    ELSE then_ts - The(r["dateTime"])
        near == {r \in archive : Dist(r) <= grace}
    IN  IF near = {} THEN {None}
        ELSE {Some(r) : r \in {n \in near : \A m \in near : Dist(n) <= Dist(m)}}

\* The outcome of a calc_trend call: the value returned and the number of
\* getRecord calls made.
TrendOutcome(ret, lookups) == [ret |-> ret, lookups |-> lookups]

\* mutant of calc_trend: the historical value is not converted
calc_trend_NoConvert(obs_type, now_vt, then_record) ==
    IF now_vt.value # None
    THEN IF then_record # None /\ obs_type \in DOMAIN The(then_record)
         THEN LET then == as_value_tuple(The(then_record), obs_type).value
              IN  IF then # None THEN TrendOutcome(Some(The(now_vt.value) - The(then)), 1)
                                 ELSE TrendOutcome(None, 1)
         ELSE TrendOutcome(None, 1)
    ELSE TrendOutcome(None, 0)

\* mutant of calc_trend: the record is looked up before the current value
\* is tested
calc_trend_LooksUpFirst(obs_type, now_vt, then_record) ==
    IF now_vt.value # None /\ then_record # None /\ obs_type \in DOMAIN The(then_record)
    THEN LET then == convert(as_value_tuple(The(then_record), obs_type), now_vt.unit).value
         IN  IF then # None THEN TrendOutcome(Some(The(now_vt.value) - The(then)), 1)
                            ELSE TrendOutcome(None, 1)
    ELSE TrendOutcome(None, 1)

\* calc_trend, then_record being what db_manager.getRecord(then_ts, grace)
\* returns when it is called
calc_trend(obs_type, now_vt, then_record) ==
    IF now_vt.value # None
    THEN IF then_record # None /\ obs_type \in DOMAIN The(then_record)
         THEN LET then == convert(as_value_tuple(The(then_record), obs_type),
                                  now_vt.unit).value
              IN  IF then # None THEN TrendOutcome(Some(The(now_vt.value) - The(then)), 1)
                                 ELSE TrendOutcome(None, 1)
         ELSE TrendOutcome(None, 1)
    ELSE TrendOutcome(None, 0)

\* the archive records of the time t: in METRICWX with an outTemp of 18 C,
\* in US with one of 68 F (20 C), with a null outTemp, and with no outTemp
TrendRecords(t) ==
    {[dateTime |-> Some(t), usUnits |-> Some("METRICWX"), outTemp |-> Some(18)],
     [dateTime |-> Some(t), usUnits |-> Some("US"), outTemp |-> Some(68)],
     [dateTime |-> Some(t), usUnits |-> Some("METRICWX"), outTemp |-> None],
     [dateTime |-> Some(t), usUnits |-> Some("METRICWX"), outHumidity |-> Some(50)]}

\* the archives: at most one record for each time
Archives ==
    {a \in SUBSET (UNION {TrendRecords(t) : t \in TrendTimes}) :
        \A r, q \in a : r["dateTime"] = q["dateTime"] => r = q}

\* the current values, as calculate builds them for outTemp
NowValues == {[value |-> v, unit |-> "degree_C"] : v \in {None, Some(18), Some(20)}}

TrendCall(obs_type, now_vt, then_ts, grace, then_record, out) ==
    [op |-> "calc_trend", obs_type |-> obs_type, now_vt |-> now_vt, then_ts |-> then_ts,
     grace |-> grace, then_record |-> then_record, ret |-> out.ret, lookups |-> out.lookups]

TrendInit ==
    /\ db \in Archives
    /\ tcall = [op |-> "init"]
    /\ NoSeries /\ NoRtcr /\ NoCache /\ NoThread

CalcTrend ==
    /\ \E obs_type \in {"outTemp", "outHumidity"} : \E now_vt \in NowValues :
       \E then_ts \in TrendTimes : \E grace \in {0, TrendStep} :
       \E then_record \in getRecord(db, then_ts, grace) :
          tcall' = TrendCall(obs_type, now_vt, then_ts, grace, then_record,
                             calc_trend(obs_type, now_vt, then_record))
    /\ UNCHANGED <<db, series_vars, rtcr_vars, cache_vars, beyond_trend>>

TrendNext == CalcTrend

TrendSpec == TrendInit /\ [][TrendNext]_vars

(***************************************************************************)
(* Properties of calc_trend.                                               *)
(***************************************************************************)
\* the historical value of a call c in the unit of its current value, None
\* if the lookup gave no record or a record without the observation
Historical(c) ==
    IF c.then_record # None /\ c.obs_type \in DOMAIN The(c.then_record)
    THEN convert(as_value_tuple(The(c.then_record), c.obs_type), c.now_vt.unit).value
    ELSE None

\* C27: with a current value, calc_trend returns the current value less the
\* historical one, converted to the current value's unit, if the lookup
\* gives a record that holds the observation with a value, and None if the
\* lookup gives no record or one without the observation; equal values give
\* 0 and not None.
C27_TrendIsCurrentLessHistorical ==
    (tcall.op = "calc_trend" /\ tcall.now_vt.value # None) =>
        /\ Historical(tcall) # None =>
              tcall.ret = Some(The(tcall.now_vt.value) - The(Historical(tcall)))
        /\ (tcall.then_record = None \/ tcall.obs_type \notin DOMAIN The(tcall.then_record))
              => tcall.ret = None
        /\ (Historical(tcall) # None /\ Historical(tcall) = tcall.now_vt.value)
              => tcall.ret = Some(0)

\* a current value of 20 and a record with an outTemp of 18 at then_ts
\* exactly, with a grace of 0, give +2
C27_Witness ==
    /\ tcall.op = "calc_trend" /\ tcall.obs_type = "outTemp"
    /\ tcall.now_vt.value = Some(20) /\ tcall.grace = 0
    /\ tcall.then_record # None
    /\ The(tcall.then_record)["outTemp"] = Some(18)
    /\ The(tcall.then_record)["dateTime"] = Some(tcall.then_ts)
    /\ tcall.ret = Some(2)

\* C28: with a current value of None calc_trend returns None and makes no
\* lookup; every call makes at most one lookup and leaves the archive as it
\* is, and its result depends on its arguments and the record looked up
\* alone.
C28_NoLookupWithoutCurrentValue ==
    [][tcall'.op = "calc_trend" =>
          /\ tcall'.now_vt.value = None => (tcall'.ret = None /\ tcall'.lookups = 0)
          /\ tcall'.lookups <= 1
          /\ db' = db
          /\ (tcall.op = "calc_trend"
              /\ tcall'.obs_type = tcall.obs_type /\ tcall'.now_vt = tcall.now_vt
              /\ tcall'.then_record = tcall.then_record) => tcall'.ret = tcall.ret
      ]_vars

\* a call with no current value, after a call that gave a trend, in an
\* archive that holds a record for then_ts
C28_Witness ==
    /\ tcall.op = "calc_trend" /\ tcall.now_vt.value = None
    /\ tcall.lookups = 0 /\ tcall.ret = None
    /\ getRecord(db, tcall.then_ts, tcall.grace) # {None}

(***************************************************************************)
(* class RealtimeClientraw, the service, whose handlers run in the engine  *)
(* thread and put packages in rtcr_queue, and class                        *)
(* RealtimeClientrawThread, whose run gets them in the worker thread.  A   *)
(* package is the record [type, payload, id]: type is "loop", "archive",   *)
(* "stats", "event", or "none" for the None that ends the thread; id       *)
(* numbers the packages in the order they are put.                         *)
(***************************************************************************)
\* the backlog above which run drops a loop packet
Backlog == 5
\* the engine puts at most MaxPut packages, MaxLoops of them loop packets
MaxPut == 7
MaxLoops == 2
\* time.time() reads 3, ..., MaxClock: every reading is later than last_write
\* of __init__, 0, by more than every min_interval
MaxClock == 5

Package(type, payload, id) == [type |-> type, payload |-> payload, id |-> id]

\* mutant of Queue_get: the package put last is got
Queue_get_Lifo(q) == [item |-> q[Len(q)], rest |-> SubSeq(q, 1, Len(q) - 1)]

\* Queue.Queue.get() on a queue that is not empty: the package got and the
\* packages left
Queue_get(q) == [item |-> Head(q), rest |-> Tail(q)]

\* the loop packets the station emits: the weather sensors at the first of
\* the packets' times, and wind, with a direction and with none, at the last
ThreadPackets ==
    {p \in Packets :
        \/ /\ p.dateTime = Some(0)
           /\ p.obs = [outTemp |-> Some(1), rain |-> Some(1), UV |-> Some(1)]
        \/ /\ p.dateTime = Some(MaxPacketTick * PacketStep)
           /\ p.obs \in {[windSpeed |-> Some(10), windDir |-> Some(90)],
                         [windSpeed |-> Some(10)]}}

\* a packet as the dict the cache is given
AsDict(packet) ==
    [dateTime |-> packet.dateTime, usUnits |-> Some(packet.usUnits)] @@ packet.obs

\* weewx.units.to_METRICWX(packet)
to_METRICWX(packet) == to_std_system(packet, "METRICWX")

\* time.strftime('%w', time.localtime(ts)), in UTC: the day of the week, 0
\* for Sunday; the epoch was a Thursday
DayOfWeek(ts) == ((ts \div 86400) + 4) % 7

\* the settings of min_interval: omitted, or the string of the config file
MinIntervals == {None, Some("0"), Some("2"), Some("")}

\* float(min_interval): None where float raises ValueError
Float(string) ==
    CASE string = "0" -> Some(0) [] string = "2" -> Some(2) [] OTHER -> None

\* RealtimeClientrawThread.__init__: the attributes run uses; day_stats and
\* stats hold the id of the archive and stats package they were last set
\* from
Thread(min_interval) ==
    [min_interval |-> min_interval, last_write |-> 0, dow |-> None, new_day |-> FALSE,
     day_stats |-> None, stats |-> None]

\* the worker's objects: the packet cache, the buffer and the thread's
\* attributes
Worker(c, b, t) == [cache |-> c, buffer |-> b, thread |-> t]

\* process_packet, lines 741-742: the cache is updated from the packet
pp_update_cache(w, packet) ==
    [w EXCEPT !.cache = Cache_update(@, AsDict(packet), The(packet.dateTime))]

\* process_packet, lines 744-750: the day's reset on a change of the day
pp_day_reset(w, packet) ==
    LET dow == Some(DayOfWeek(The(packet.dateTime)))
    IN  IF w.thread.dow # None /\ w.thread.dow # dow
        THEN Only({Outcome([w EXCEPT !.thread.new_day = TRUE,
                                     !.buffer = r.self,
                                     !.thread.dow = IF r.exc = "none" THEN dow ELSE @],
                           None, r.exc) :
                   r \in {Rtcr_start_of_day_reset(w.buffer)}})
        ELSE Outcome([w EXCEPT !.thread.dow = dow], None, "none")

\* process_packet, lines 752-758: _hour is formatted with '%w' and is the
\* day of the week
pp_nineam_reset(w, packet) ==
    LET _hour == DayOfWeek(The(packet.dateTime))
    IN  IF w.thread.new_day /\ _hour >= 9
        THEN Only({Outcome([w EXCEPT !.thread.new_day = FALSE, !.buffer = r.self],
                           None, r.exc) :
                   r \in {Rtcr_nineam_reset(w.buffer)}})
        ELSE Outcome(w, None, "none")

\* process_packet, lines 760-761
pp_add_packet(w, packet, order) ==
    Only({Outcome([w EXCEPT !.buffer = r.self], None, r.exc) :
          r \in {Rtcr_add_packet(w.buffer, packet, order)}})

\* mutant of pp_generate: an exception of the generation is not caught
pp_generate_Propagates(w, now, written) ==
    IF w.thread.min_interval # None /\ Float(The(w.thread.min_interval)) = None
    THEN Outcome(w, "none", "ValueError")
    ELSE IF \/ w.thread.min_interval = None
            \/ w.thread.last_write + The(Float(The(w.thread.min_interval))) < now
         THEN IF written = None THEN Outcome(w, "none", "IOError")
              ELSE Outcome([w EXCEPT !.thread.last_write = The(written)],
                           "generated", "none")
         ELSE Outcome(w, "skipped", "none")

\* process_packet, lines 763-791: now is time.time() of line 765; written is
\* None if the generation raises (the exception is caught) and else Some of
\* time.time() of line 778.  The value returned is the decision.
pp_generate(w, now, written) ==
    IF w.thread.min_interval # None /\ Float(The(w.thread.min_interval)) = None
    THEN Outcome(w, "none", "ValueError")
    ELSE IF \/ w.thread.min_interval = None
            \/ w.thread.last_write + The(Float(The(w.thread.min_interval))) < now
         THEN IF written = None THEN Outcome(w, "failed", "none")
              ELSE Outcome([w EXCEPT !.thread.last_write = The(written)],
                           "generated", "none")
         ELSE Outcome(w, "skipped", "none")

\* what process_packet did: the objects it leaves, the exception it raised,
\* its decision on the generation ("none" if it did not get there) and
\* whether it called add_packet
Processed(w, exc, decision, was_added) ==
    [self |-> w, exc |-> exc, decision |-> decision, added |-> was_added]

\* RealtimeClientrawThread.process_packet(packet)
process_packet(w, packet, order, now, written) ==
    Only({IF a.exc # "none" THEN Processed(a.self, a.exc, "none", FALSE)
          ELSE Only({IF b.exc # "none" THEN Processed(b.self, b.exc, "none", FALSE)
                     ELSE Only({IF c.exc # "none"
                                THEN Processed(c.self, c.exc, "none", TRUE)
                                ELSE Only({Processed(d.self, d.exc, d.ret, TRUE) :
                                           d \in {pp_generate(c.self, now, written)}}) :
                                c \in {pp_add_packet(b.self, packet, order)}}) :
                     b \in {pp_nineam_reset(a.self, packet)}}) :
          a \in {pp_day_reset(pp_update_cache(w, to_METRICWX(packet)),
                              to_METRICWX(packet))}})

\* run, lines 692-711: what the package got makes of the worker: the
\* position it goes to ("exited" after None and after an exception, which
\* nothing in run catches here; "check" with a loop packet) and its objects
run_dispatch(w, package) ==
    CASE package.type = "none" -> [self |-> w, wpc |-> "exited"]
      [] package.type = "archive" ->
            [self |-> [w EXCEPT !.thread.day_stats = Some(package.id)], wpc |-> "get"]
      [] package.type = "event" ->
            Only({[self |-> [w EXCEPT !.buffer = r.self],
                   wpc |-> IF r.exc = "none" THEN "get" ELSE "exited"] :
                  r \in {end_archive_period(w.buffer)}})
      [] package.type = "stats" ->
            [self |-> [w EXCEPT !.thread.stats = Some(package.id)], wpc |-> "get"]
      [] package.type = "loop" -> [self |-> w, wpc |-> "check"]

\* mutant of run_within_backlog: no loop packet is dropped
run_within_backlog_Always(qsize) == TRUE

\* run, line 714: the test of the backlog on self.rtcr_queue.qsize()
run_within_backlog(qsize) == qsize <= Backlog

\* the record of what was done with the loop package p
Done(p, exc, decision, now) ==
    [id |-> p.id, exc |-> exc, decision |-> decision, now |-> now]

\* the archive's day summary and last record at the start of run
ThreadDayStats == {d \in DayStats : d.unit_system = "METRICWX" /\ d.stats = <<>>}
ThreadRecords ==
    {[usUnits |-> Some("METRICWX")],
     [dateTime |-> Some(0), usUnits |-> Some("METRICWX"), outTemp |-> Some(5)]}

ThreadInit ==
    /\ queue = <<>> /\ epc = "idle" /\ wpc = "start" /\ pkg = None /\ next_id = 0
    /\ thread \in {Thread(m) : m \in MinIntervals}
    /\ clock = 3
    /\ sent = <<>>
    /\ applied = [cache |-> <<>>, buffer |-> <<>>]
    /\ actor = "none"
    /\ outcome = None
    /\ buffer = None /\ bcall = None
    /\ NoCache /\ NoSeries /\ NoTrend

\* what the engine thread's steps leave alone
EngineFrame ==
    UNCHANGED <<wpc, pkg, thread, clock, applied, outcome, buffer, cache,
                bcall, ccall, stored_in, series_vars, trend_vars>>

\* rtcr_queue.put(package) by the engine thread
Put(type, payload) ==
    /\ next_id < MaxPut
    /\ queue' = Append(queue, Package(type, payload, next_id))
    /\ next_id' = next_id + 1
    /\ actor' = "engine"

\* RealtimeClientraw.new_loop_packet(event)
NewLoopPacket ==
    /\ epc = "idle" /\ Len(sent) < MaxLoops
    /\ \E packet \in ThreadPackets :
          /\ Put("loop", packet)
          /\ sent' = Append(sent, Package("loop", packet, next_id))
    /\ UNCHANGED epc
    /\ EngineFrame

\* RealtimeClientraw.new_archive_record(event), up to the first put
NewArchiveRecord ==
    /\ epc = "idle" /\ next_id + 3 <= MaxPut
    /\ Put("archive", None)
    /\ epc' = "rain"
    /\ UNCHANGED sent
    /\ EngineFrame

\* new_archive_record, the put of yesterday's rain
PutHistoricalRain ==
    /\ epc = "rain"
    /\ Put("stats", None)
    /\ epc' = "gust"
    /\ UNCHANGED sent
    /\ EngineFrame

\* new_archive_record, the put of the hour's gust
PutHourGust ==
    /\ epc = "gust"
    /\ Put("stats", None)
    /\ epc' = "idle"
    /\ UNCHANGED sent
    /\ EngineFrame

\* RealtimeClientraw.end_archive_period(event)
EndArchivePeriodEvent ==
    /\ epc = "idle"
    /\ Put("event", None)
    /\ UNCHANGED <<epc, sent>>
    /\ EngineFrame

\* RealtimeClientraw.shutDown(), line 341: the test of isAlive().  The
\* thread is alive until run returns; shutDown goes on to the put if it is,
\* and is over if it is not.
ShutDown ==
    /\ epc = "idle"
    /\ IF wpc # "exited" THEN next_id < MaxPut /\ epc' = "put"
                         ELSE epc' = "down"
    /\ actor' = "engine"
    /\ UNCHANGED <<queue, next_id, sent>>
    /\ EngineFrame

\* shutDown, lines 343-345: None is put, whatever the worker has done since
\* the test, and the thread is joined
ShutDownPut ==
    /\ epc = "put"
    /\ Put("none", None)
    /\ epc' = "down"
    /\ UNCHANGED sent
    /\ EngineFrame

\* what the worker thread's steps leave alone
WorkerFrame ==
    UNCHANGED <<epc, next_id, sent, bcall, ccall, stored_in, series_vars, trend_vars>>

\* run, lines 656-687: the buffer and the packet cache are built
WorkerStart ==
    /\ wpc = "start"
    /\ \E day_stats \in ThreadDayStats : buffer' = RtcrBuffer(day_stats)
    /\ \E rec \in ThreadRecords : cache' = CachedPacket(rec, clock)
    /\ wpc' = "get"
    /\ actor' = "worker"
    /\ UNCHANGED <<queue, pkg, thread, clock, applied, outcome>>
    /\ WorkerFrame

\* run, lines 692-711: a package is got and, unless it is a loop packet,
\* handled
WorkerGet ==
    /\ wpc = "get" /\ queue # <<>>
    /\ \E g \in {Queue_get(queue)} :
       \E r \in {run_dispatch(Worker(cache, buffer, thread), g.item)} :
          /\ queue' = g.rest
          /\ cache' = r.self.cache /\ buffer' = r.self.buffer /\ thread' = r.self.thread
          /\ wpc' = r.wpc
          /\ pkg' = IF r.wpc = "check" THEN g.item ELSE None
    /\ actor' = "worker"
    /\ UNCHANGED <<clock, applied, outcome>>
    /\ WorkerFrame

\* run, line 714: the loop packet got is dropped if more than Backlog
\* packages wait in the queue when qsize() is read, and is else to be
\* processed
WorkerCheck ==
    /\ wpc = "check"
    /\ IF run_within_backlog(Len(queue))
       THEN /\ wpc' = "process"
            /\ UNCHANGED <<pkg, outcome>>
       ELSE /\ wpc' = "get"
            /\ pkg' = None
            /\ outcome' = Done(pkg, "none", "dropped", clock)
    /\ actor' = "worker"
    /\ UNCHANGED <<queue, cache, buffer, thread, clock, applied>>
    /\ WorkerFrame

\* run, lines 717-730: the loop packet is processed; an exception of
\* process_packet ends run.  time.time() is read at line 765 if
\* min_interval is a number, and at line 778 after a generation.
WorkerProcess ==
    /\ wpc = "process"
    /\ \E order \in Orders({f \in Keys(pkg.payload) : In(f, MANIFEST)}) :
       \E now \in IF thread.min_interval # None /\ Float(The(thread.min_interval)) # None
                  THEN clock..MaxClock ELSE {clock} :
       \E written \in {None} \cup {Some(t) : t \in now..MaxClock} :
       \E r \in {process_packet(Worker(cache, buffer, thread), pkg.payload,
                                order, now, written)} :
          /\ cache' = r.self.cache /\ buffer' = r.self.buffer
          /\ thread' = r.self.thread
          /\ wpc' = IF r.exc = "none" THEN "get" ELSE "exited"
          /\ clock' = IF r.decision = "generated" THEN The(written) ELSE now
          /\ applied' = [cache |-> Append(applied.cache, pkg),
                         buffer |-> IF r.added THEN Append(applied.buffer, pkg)
                                               ELSE applied.buffer]
          /\ outcome' = Done(pkg, r.exc, r.decision, now)
    /\ pkg' = None
    /\ actor' = "worker"
    /\ UNCHANGED queue
    /\ WorkerFrame

ThreadNext ==
    \/ NewLoopPacket
    \/ NewArchiveRecord
    \/ PutHistoricalRain
    \/ PutHourGust
    \/ EndArchivePeriodEvent
    \/ ShutDown
    \/ ShutDownPut
    \/ WorkerStart
    \/ WorkerGet
    \/ WorkerCheck
    \/ WorkerProcess

ThreadSpec == ThreadInit /\ [][ThreadNext]_vars

\* the worker thread is scheduled: a step of run that can be taken is taken
\* (get blocks while the queue is empty)
ThreadLiveSpec ==
    /\ ThreadSpec
    /\ WF_vars(WorkerStart) /\ WF_vars(WorkerGet) /\ WF_vars(WorkerCheck)
    /\ WF_vars(WorkerProcess)

(***************************************************************************)
(* Properties of the service and its thread.                               *)
(***************************************************************************)
\* the ids of a sequence of packages grow strictly
Ascending(packages) ==
    \A i, j \in DOMAIN packages : i < j => packages[i].id < packages[j].id

\* C29: in every interleaving of the engine thread and the worker thread,
\* only steps of the worker change the buffer and the packet cache, and the
\* loop packets given to the cache and to the buffer are packets that were
\* put, given in the order they were put and each at most once.
C29_WorkerAloneAppliesInOrder ==
    /\ [][(buffer' # buffer \/ cache' # cache) => actor' = "worker"]_vars
    /\ [](\A a \in {applied.cache, applied.buffer} :
             /\ Ascending(a)
             /\ \A i \in DOMAIN a : \E k \in DOMAIN sent : sent[k] = a[i])

\* two loop packets were applied, the second put while the first was being
\* processed or had been, and the engine has put more since
C29_Witness ==
    /\ Len(applied.buffer) = 2 /\ Len(applied.cache) = 2
    /\ applied.buffer[1].id + 1 < applied.buffer[2].id
    /\ queue # <<>>
    /\ wpc = "get"

\* the loop packet of the last worker step was processed up to the decision
\* on the generation
Decided(o) == o # None /\ o.decision # "dropped" /\ o.exc \in {"none", "ValueError"}

\* C30: of a loop packet processed, the generation is skipped if and only
\* if min_interval is set and less than min_interval seconds have passed
\* since the last generation; with min_interval omitted or 0 the generation
\* takes place (it is run, and may fail) for every packet processed; and in
\* both cases the packet has been given to the cache and to the buffer.
C30_SkipOnlyWithinMinInterval ==
    [][(wpc = "process" /\ wpc' # "process" /\ Decided(outcome')) =>
          /\ outcome'.decision \in {"skipped", "generated", "failed"}
          /\ outcome'.decision = "skipped" <=>
                /\ thread.min_interval # None
                /\ Float(The(thread.min_interval)) # None
                /\ outcome'.now - thread.last_write < The(Float(The(thread.min_interval)))
          /\ thread.min_interval \in {None, Some("0")} =>
                outcome'.decision \in {"generated", "failed"}
          /\ applied'.cache = Append(applied.cache, pkg)
          /\ applied'.buffer = Append(applied.buffer, pkg)
      ]_vars

(***************************************************************************)
(* The worker thread over the end of a day.  The engine has put the loop   *)
(* packets of the queue before run starts; their times are midnight and    *)
(* 09:00 of two days that follow each other and midnight one week later    *)
(* (times are UTC, as DayOfWeek).  The buffer is seeded from a day summary *)
(* that holds no observation or every observation of MANIFEST.             *)
(***************************************************************************)
\* the queue holds at most MaxDayQueue loop packets at the start
MaxDayQueue == 3

DayTimes == {0, 9 * 3600, 86400, 86400 + 9 * 3600, 7 * 86400}

\* the loop packets: the weather sensors with two temperatures, and wind
\* with no direction
DayObs ==
    { [outTemp |-> Some(1), rain |-> Some(1)],
      [outTemp |-> Some(2), rain |-> Some(1)],
      [windSpeed |-> Some(10)] }

DayPackets ==
    {[dateTime |-> Some(t), usUnits |-> "METRICWX", obs |-> o] :
        t \in DayTimes, o \in DayObs}

\* a day summary that holds statistics of every observation of MANIFEST
FullDayStats ==
    [unit_system |-> "METRICWX",
     stats |-> [k \in {MANIFEST[i] : i \in DOMAIN MANIFEST} |->
                   [min |-> Some(1), mintime |-> Some(0),
                    max |-> Some(1), maxtime |-> Some(0),
                    sum |-> 1, xsum |-> 0, ysum |-> 0, wsum |-> 36000]]]

\* the day summaries _get_day_summary returns at the start of run
DaySummaries == ThreadDayStats \cup {FullDayStats}

\* the queues of n loop packets, numbered in the order they were put
DayQueues(n) ==
    {[i \in 1..n |-> Package("loop", f[i], i - 1)] : f \in [1..n -> DayPackets]}

DayInit ==
    /\ queue \in UNION {DayQueues(n) : n \in 1..MaxDayQueue}
    /\ sent = queue /\ next_id = Len(queue)
    /\ epc = "idle" /\ wpc = "start" /\ pkg = None
    /\ thread = Thread(None)
    /\ clock = 3
    /\ applied = [cache |-> <<>>, buffer |-> <<>>]
    /\ actor = "engine"
    /\ outcome = None
    /\ buffer = None /\ bcall = None
    /\ NoCache /\ NoSeries /\ NoTrend

\* run, lines 656-687, with the day summaries of DaySummaries
DayStart ==
    /\ wpc = "start"
    /\ \E day_stats \in DaySummaries : buffer' = RtcrBuffer(day_stats)
    /\ \E rec \in ThreadRecords : cache' = CachedPacket(rec, clock)
    /\ wpc' = "get"
    /\ actor' = "worker"
    /\ UNCHANGED <<queue, pkg, thread, clock, applied, outcome>>
    /\ WorkerFrame

DayNext ==
    \/ DayStart
    \/ WorkerGet
    \/ WorkerCheck
    \/ WorkerProcess

DaySpec == DayInit /\ [][DayNext]_vars

(***************************************************************************)
(* Properties of process_packet at the end of a day.                       *)
(***************************************************************************)
\* the day a timestamp lies in
DayOf(ts) == ts \div 86400
HourOf(ts) == (ts % 86400) \div 3600

\* the step is run's processing of the loop packet pkg
ProcessesPacket == wpc = "process" /\ wpc' # "process"

\* the time of the packet processed before pkg, None if pkg is the first
PreviousTime ==
    IF applied.cache = <<>> THEN None
    ELSE applied.cache[Len(applied.cache)].payload.dateTime

\* C31: when the day of the packet processed differs from the day of the
\* packet processed before it, the day's reset runs before add_packet: after
\* the packet is processed every hi/lo series the packet has a value for has
\* day_min = day_max = that value, and every series of SUM_MANIFEST it has a
\* value for has that value as its day_sum; the first packet processed is
\* added with no reset.
C31_DayChangeResetsBeforeAdd ==
    [][ProcessesPacket =>
          LET packet == pkg.payload
              ts     == The(packet.dateTime)
          IN  /\ (PreviousTime # None /\ DayOf(The(PreviousTime)) # DayOf(ts)) =>
                    \A obs \in DOMAIN packet.obs :
                       packet.obs[obs] # None =>
                          /\ In(obs, HILO_MANIFEST) =>
                                /\ obs \in DOMAIN buffer'.items
                                /\ buffer'.items[obs].day_min = packet.obs[obs]
                                /\ buffer'.items[obs].day_max = packet.obs[obs]
                          /\ In(obs, SUM_MANIFEST) =>
                                /\ obs \in DOMAIN buffer'.items
                                /\ buffer'.items[obs].day_sum = packet.obs[obs]
              /\ PreviousTime = None =>
                    /\ thread'.new_day = FALSE
                    /\ \E order \in Orders({f \in Keys(packet) : In(f, MANIFEST)}) :
                          buffer' = Rtcr_add_packet(buffer, packet, order).self
      ]_vars

\* the packet's day differs from the day of the packet processed before it
DayChanges ==
    /\ PreviousTime # None
    /\ DayOf(The(PreviousTime)) # DayOf(The(pkg.payload.dateTime))

\* the 9am sum of the series obs of the buffer b, 0 with no series
NineamSum(b, obs) ==
    IF obs \in DOMAIN b.items THEN The(b.items[obs].nineam_sum) ELSE 0

\* C32: once a change of day was detected, the first packet processed whose
\* hour of the day is 9 or later has the 9am sums reset before it is added
\* (each 9am sum is then the packet's value alone) and ends the wait for
\* 09:00; every other packet is added to the 9am sums with no reset.
C32_NineamResetOnceAfterDayChange ==
    [][ProcessesPacket =>
          LET packet == pkg.payload
              due    == /\ thread.new_day \/ DayChanges
                        /\ HourOf(The(packet.dateTime)) >= 9
          IN  /\ due => thread'.new_day = FALSE
              /\ \A obs \in DOMAIN packet.obs :
                    (In(obs, SUM_MANIFEST) /\ packet.obs[obs] # None) =>
                        NineamSum(buffer', obs) =
                           (IF due THEN 0 ELSE NineamSum(buffer, obs)) + The(packet.obs[obs])
      ]_vars

(***************************************************************************)
(* Properties of run's loop.                                               *)
(***************************************************************************)
\* the step is run's get of a package
GetsPackage == wpc = "get" /\ Len(queue') < Len(queue)

\* C33: the loop packet run has got is processed only if at most Backlog
\* packages wait in the queue when run tests it, and is else dropped with
\* the cache and the buffer left as they were; an archive, stats or event
\* package got is handled whatever the length of the queue, and the package
\* got is the one put first of those that wait.
C33_LoopPacketsDroppedAboveBacklog ==
    [][/\ (wpc = "check" /\ wpc' # "check") =>
             /\ cache' = cache /\ buffer' = buffer /\ applied' = applied
             /\ IF Len(queue) <= Backlog
                THEN wpc' = "process" /\ pkg' = pkg
                ELSE wpc' = "get" /\ outcome'.decision = "dropped"
       /\ (wpc # "process" /\ wpc' = "process") =>
             wpc = "check" /\ Len(queue) <= Backlog
       /\ (wpc = "process" /\ wpc' # "process") =>
             /\ outcome'.decision # "dropped"
             /\ applied'.cache = Append(applied.cache, pkg)
       /\ GetsPackage =>
             LET item == Head(queue)
             IN  /\ queue' = Tail(queue)
                 /\ \A i \in DOMAIN queue : item.id <= queue[i].id
                 /\ item.type = "archive" => thread'.day_stats = Some(item.id)
                 /\ item.type = "stats" => thread'.stats = Some(item.id)
                 /\ item.type = "event" => buffer' = end_archive_period(buffer).self
                 /\ item.type = "loop" => wpc' = "check" /\ pkg' = item
      ]_vars

\* a loop packet was dropped, no loop packet was processed, and the archive
\* package and a stats package put after it have been handled
C33_Witness ==
    /\ outcome # None /\ outcome.decision = "dropped"
    /\ applied.cache = <<>>
    /\ thread.day_stats # None /\ thread.stats # None
    /\ The(thread.day_stats) > outcome.id

\* the None that shutDown puts waits in the queue
SentinelWaits == \E i \in DOMAIN queue : queue[i].type = "none"

\* C34: once shutDown has put None, the worker gets (and handles or drops)
\* every package put before it and then returns from run, which it does on
\* the get of None: when run has returned no package waits ahead of None;
\* after run has returned, no package is got or processed.
C34_WorkerDrainsQueueThenExits ==
    /\ [][(GetsPackage /\ Head(queue).type = "none") => wpc' = "exited"]_vars
    /\ [][wpc = "exited" =>
             /\ wpc' = "exited" /\ Len(queue') >= Len(queue)
             /\ cache' = cache /\ buffer' = buffer /\ thread' = thread
             /\ applied' = applied]_vars
    /\ [](wpc = "exited" => \A i \in DOMAIN queue : queue[i].type = "none" => i = 1)
    /\ (SentinelWaits ~> wpc = "exited")

\* C35: an exception of the generation (calculate, the formatting, the
\* write) is caught in process_packet: run goes on to the next get and the
\* packet stays applied to the cache and to the buffer.  The exceptions that
\* leave process_packet are raised before the generation, by a reset (before
\* add_packet is called) or by add_packet: run then returns, and no package
\* is got or processed any more.
C35_GenerationErrorsAreContained ==
    /\ [][ProcessesPacket =>
             /\ outcome'.decision = "failed" =>
                   /\ outcome'.exc = "none" /\ wpc' = "get"
                   /\ thread'.last_write = thread.last_write
                   /\ applied'.cache = Append(applied.cache, pkg)
                   /\ applied'.buffer = Append(applied.buffer, pkg)
                   /\ cache' = pp_update_cache(Worker(cache, buffer, thread),
                                               to_METRICWX(pkg.payload)).cache
                   /\ \E order \in Orders({f \in Keys(pkg.payload) : In(f, MANIFEST)}) :
                         buffer' = pp_add_packet(
                                      pp_nineam_reset(
                                         pp_day_reset(Worker(cache, buffer, thread),
                                                      to_METRICWX(pkg.payload)).self,
                                         to_METRICWX(pkg.payload)).self,
                                      to_METRICWX(pkg.payload), order).self.buffer
             /\ outcome'.exc = "none" <=> wpc' = "get"
             /\ outcome'.exc # "none" =>
                   /\ wpc' = "exited" /\ outcome'.decision = "none"
                   /\ \/ /\ outcome'.exc = "KeyError" /\ DayChanges
                         /\ applied'.buffer = applied.buffer
                      \/ /\ outcome'.exc = "TypeError"
                         /\ applied'.buffer = Append(applied.buffer, pkg)
       ]_vars
    /\ [][wpc = "exited" =>
             /\ wpc' = "exited" /\ Len(queue') >= Len(queue)
             /\ UNCHANGED <<cache, buffer, thread, applied, outcome>>]_vars

\* run has returned on an exception of the second packet or a later one,
\* with a package left in the queue; the generation failed for every packet
\* before (last_write was never set), and run went on
C35_Witness ==
    /\ wpc = "exited" /\ outcome # None /\ outcome.exc # "none"
    /\ Len(applied.cache) >= 2
    /\ thread.min_interval = None /\ thread.last_write = 0
    /\ queue # <<>>

(***************************************************************************)
(* Properties of the buffer's wind series and wind run.                    *)
(***************************************************************************)
\* the series has a history entry of the time ts
Recorded(series, ts) == \E i \in DOMAIN series.history : series.history[i].ts = ts

\* C36: add_packet of a wind sample that has a speed and no direction (the
\* key windDir is missing or its value is None) raises nothing, and the
\* sample is then in the history of the series windSpeed and of the series
\* wind.
C36_WindWithoutDirectionIsRecorded ==
    [][(/\ AddedWind(bcall')
        /\ bcall'.packet.obs["windSpeed"] # None
        /\ Get(bcall'.packet, "windDir") = None) =>
          /\ bcall'.exc = "none"
          /\ "windSpeed" \in DOMAIN buffer'.items
          /\ Recorded(buffer'.items["windSpeed"], The(bcall'.packet.dateTime))
          /\ "wind" \in DOMAIN buffer'.items
          /\ Recorded(buffer'.items["wind"], The(bcall'.packet.dateTime))
      ]_vars

\* C37: no add_packet of a wind sample, whose speeds are not negative,
\* makes windrun smaller, whatever the order of the samples' times and also
\* after a sample with a speed of None.
C37_WindrunNeverDecreases ==
    [][bcall'.op = "add_packet" =>
          buffer'.windrun.num * buffer.windrun.den
             >= buffer.windrun.num * buffer'.windrun.den
      ]_vars

\* C38: the wind run is the run of the day: when the day's reset has run
\* for a packet (the change of day was detected and the packet was then
\* added with no exception), windrun holds the run of that packet's wind
\* sample alone, and 0 if the packet has none.
C38_DayResetClearsWindrun ==
    [][(/\ ProcessesPacket /\ DayChanges
        /\ ~thread.new_day /\ thread'.new_day
        /\ outcome'.exc = "none") =>
          LET packet == pkg.payload
          IN  IF /\ Get(packet, "windSpeed") # None
                 /\ buffer.last_windSpeed_ts # None
              THEN buffer'.windrun =
                      Quotient(The(packet.obs["windSpeed"])
                                  * (The(packet.dateTime) - The(buffer.last_windSpeed_ts)),
                               1000)
              ELSE buffer'.windrun = Quotient(0, 1)
      ]_vars

\* C39: the day's reset runs only for a packet of a later day than the
\* packet processed before it: a packet of an earlier day, which arrives
\* late, is added with no reset, and so is the packet of the current day
\* that follows it.
C39_LatePacketTriggersNoDayReset ==
    [][(/\ ProcessesPacket /\ PreviousTime # None
        /\ \E i \in DOMAIN applied.cache :
              DayOf(The(applied.cache[i].payload.dateTime))
                 >= DayOf(The(pkg.payload.dateTime))) =>
          /\ thread'.new_day = thread.new_day
          /\ \E order \in Orders({f \in Keys(pkg.payload) : In(f, MANIFEST)}) :
                buffer' = Rtcr_add_packet(buffer, to_METRICWX(pkg.payload), order).self
      ]_vars

(***************************************************************************)
(* A property of the packet cache's timestamps.                            *)
(***************************************************************************)
\* C40: over the calls of update the timestamp cached for a field never
\* goes back: an update with a timestamp older than the field's entry
\* leaves the entry, the newer value, as it is.
C40_CachedTimestampNeverDecreases ==
    [][ccall'.op = "update" =>
          \A obs \in DOMAIN cache.cache :
             /\ obs \in DOMAIN cache'.cache
             /\ The(cache'.cache[obs].ts) >= The(cache.cache[obs].ts)
             /\ The(ccall'.ts) < The(cache.cache[obs].ts) =>
                   cache'.cache[obs] = cache.cache[obs]
      ]_vars

=============================================================================
